---- MODULE Spec2Model ----
(***************************************************************************)
(* Batch job scheduler of the FPL power-meter API: runBatchLookup, its     *)
(* background row loop, the cold / warm portal flows it dispatches to, and *)
(* the Job/Result stores behind db.prepare(sql).run(...).                  *)
(*                                                                         *)
(* Three copies of the scheduler exist in the repository and all three are *)
(* modelled:                                                               *)
(*   "railway" : railway-deploy/src/services/batch.js (progress callback,  *)
(*               batch cap, completed-if-any-progress catch)               *)
(*   "server"  : unnamed/part_002 (no callback, no cap, catch = failed)    *)
(*   "older"   : the copy at the end of server/src/index.js (one flow,     *)
(*               performFlow, that signs in for every row; every result    *)
(*               the flow returns is stored as it is)                      *)
(* and two store implementations behind the same prepare/run interface:    *)
(*   "sqlite"  : unnamed/part_001 (better-sqlite3, real SQL)               *)
(*   "memory"  : src/config/database.js and unnamed/part_000 (Map mock     *)
(*               that parses the SQL text with String.includes)            *)
(***************************************************************************)
EXTENDS Integers, Sequences, FiniteSets, TLC

\* ---------------------------------------------------------------- bounds
MaxRows == 3
\* words of an ADDRESS_LI value handed to buildAddressAndUnitFromRow
MaxTokens == 3
\* result writes made before a listing is taken
MaxWrites == 3
\* clients that subscribe to the progress of a job
NumClients == 2
\* rows of a job whose progress is pushed to subscribers
MaxPushes == 3

\* ------------------------------------------------------ program constants
MAX_BATCH_SIZE == 50
QUEUE_SIZE == 50

\* JavaScript null / undefined and the "Not found" sentinel
Null == "null"
Undefined == "undefined"
NotFound == "Not found"

StoreKinds == {"sqlite", "memory"}
Variants == {"railway", "server", "older"}
CallbackModes == {"absent", "reliable", "throwing"}

\* The one job id uuidv4() hands out in a behaviour
JobIds == {"j1"}

\* ------------------------------------------------------------ portal rows
\* A row of the submitted batch together with what the portal will show
\* for it: wellFormed = the row is an object (buildAddressAndUnitFromRow
\* does not throw), link = the "Not the right address?" link is visible on
\* the page the previous row left, fail = where a page interaction that
\* is not inside a step's own try block rejects, meter / prop = the text
\* read in Step 14 ("" when the label is not on the page).
Row(wf, link, fail, meter, prop) ==
    [wellFormed |-> wf, link |-> link, fail |-> fail, meter |-> meter, prop |-> prop]

\* no interaction of that flow rejects
Never == 0 - 1

\* Where the page of a row stops answering (it is closed, or a control
\* cannot be operated): cold = the number of states performPostLoginFlow
\* has entered by then, warm = the number of states processNextAddress
\* has entered, full = the step of performFlow whose unguarded action
\* rejects, wait = the 2 second wait before the row rejects.  The railway
\* copy waits between all its steps outside the try blocks and rejects
\* out of the state it has reached; the server copy (unnamed/part_002)
\* has such awaits at the start of the flow and around the Continue click
\* only.
Fail(cold, warm, full, wait) == [cold |-> cold, warm |-> warm, full |-> full, wait |-> wait]

NoFail == Fail(Never, Never, Never, FALSE)

\* a control of the row's page cannot be operated: the Continue click of
\* Step 7 (cold, full) or the fill of the address field (warm) times out
TimesOut == Fail(5, 1, 5, FALSE)

\* page, context or browser has been closed: every page call rejects
PageClosed == Fail(0, 0, 1, TRUE)

\* the page is closed while the flow waits after reading the statuses
ClosesLate == Fail(12, 3, Never, FALSE)

\* the numbers of states after which performPostLoginFlow can reject:
\* waitForLoadState and the first wait (0), the fixed waits and the
\* Continue click; Step 4 has no await outside its try block
ColdThrowPoints == {0, 1} \cup (3..12)

\* processNextAddress: before or at the link click (0), inside
\* AddressAndUnitEntry (1), ConfirmSelection (2), StatusReadout (3)
WarmFailPoints == 0..3

\* performFlow: every step but the region selection (2), Confirm (12)
\* and the two reads (13) has an action that is not caught
FullThrowPoints == {1} \cup (3..11)

RowBoth == Row(TRUE, TRUE, NoFail, "Active", "Occupied")
RowMeterOnly == Row(TRUE, TRUE, NoFail, "Active", "")
RowPropOnly == Row(TRUE, TRUE, NoFail, "", "Occupied")
RowNone == Row(TRUE, TRUE, NoFail, "", "")
RowThrow == Row(TRUE, TRUE, TimesOut, "", "")
RowNoLink == Row(TRUE, FALSE, NoFail, "Active", "Occupied")
RowBad == Row(FALSE, TRUE, NoFail, "", "")
RowNoLinkThrow == Row(TRUE, FALSE, TimesOut, "", "")
RowClosed == Row(TRUE, TRUE, PageClosed, "", "")
RowLate == Row(TRUE, TRUE, ClosesLate, "Active", "Occupied")

RowKinds == {RowBoth, RowMeterOnly, RowPropOnly, RowNone, RowThrow, RowNoLink, RowNoLinkThrow,
             RowBad, RowClosed, RowLate}

RECURSIVE SeqsUpTo(_, _)
SeqsUpTo(S, n) ==
    IF n = 0 THEN {<<>>}
    ELSE LET shorter == SeqsUpTo(S, n - 1)
         IN shorter \cup {Append(s, x) : s \in {q \in shorter : Len(q) = n - 1}, x \in S}

\* Batches the model submits: every batch of fewer than MaxRows rows,
\* the batches of MaxRows rows of the core kinds, and the batches of
\* MAX_BATCH_SIZE + 1 equal rows (one more than the cap).
LongRowKinds == {RowBoth, RowNone}

RowInputs ==
    SeqsUpTo(RowKinds, MaxRows - 1)
        \cup {s \in SeqsUpTo({RowBoth, RowNone, RowThrow, RowNoLink}, MaxRows) : Len(s) = MaxRows}
        \cup {[k \in 1..(MAX_BATCH_SIZE + 1) |-> r] : r \in LongRowKinds}

\* ------------------------------------------------------------- the flows
ColdStates == <<"AccountSelect", "ServiceCategorySelect", "RegionSelect",
                "AdditionalService", "CustomerTypeSelect", "MasterAccountQuestion",
                "TaxIdAndRequestorInfo", "PropertyUseAndMailing", "ConfirmProperty",
                "AddressAndUnitEntry", "ConfirmSelection", "StatusReadout">>

WarmStates == <<"AddressAndUnitEntry", "ConfirmSelection", "StatusReadout">>

\* the steps 1 to 13 of performFlow
FullStates == <<"Navigate", "RegionSelect", "AdditionalService", "Login",
                "CustomerTypeSelect", "Next", "MasterAccountQuestion",
                "TaxIdAndRequestorInfo", "PropertyUseAndMailing", "ConfirmProperty",
                "AddressAndUnitEntry", "ConfirmSelection", "StatusReadout">>

\* the extracted text returned as it was read, without the || "Not found"
OrNotFoundNoDefault(text) == text

\* meterStatus || "Not found"
OrNotFound(text) == IF text = "" THEN NotFound ELSE text

\* value || null
OrNull(v) == IF v = "" \/ v = Null THEN Null ELSE v

\* error?.message || "Unknown error"
OrUnknown(message) ==
    IF message = "" \/ message = Undefined \/ message = Null THEN "Unknown error" ELSE message

\* a locator of Step 14 that throws while it is being read
ReadThrows == "read throws"

\* let meterStatus = ""; try { ... meterStatus = text } catch { }: what the
\* variable holds after its own try block
ReadText(read) == IF read = ReadThrows THEN "" ELSE read

\* Step 14 with both reads inside one try block: a meter read that throws
\* leaves the property status unread
StatusReadoutOneTry(row) ==
    IF row.meter = ReadThrows
    THEN [meterStatus |-> NotFound, propertyStatus |-> NotFound]
    ELSE [meterStatus |-> OrNotFound(ReadText(row.meter)),
          propertyStatus |-> OrNotFound(ReadText(row.prop))]

\* Step 14: the two fields are read independently, each in its own try
StatusReadout(row) ==
    [meterStatus |-> OrNotFound(ReadText(row.meter)),
     propertyStatus |-> OrNotFound(ReadText(row.prop))]

NotFoundPair == [meterStatus |-> NotFound, propertyStatus |-> NotFound]

\* the cold flow refusing a page without either status
performPostLoginFlowStrict(row) ==
    IF row.fail.cold # Never \/ (row.meter = "" /\ row.prop = "")
    THEN [threw |-> TRUE,
          trace |-> SubSeq(ColdStates, 1, IF row.fail.cold # Never THEN row.fail.cold ELSE 5),
          result |-> NotFoundPair]
    ELSE [threw |-> FALSE, trace |-> ColdStates, result |-> StatusReadout(row)]

\* Cold flow.  waitForLoadState, the fixed waits between the steps and
\* the Continue click of Step 7 are not inside a try block: when one of
\* them rejects the flow throws out of the state it has reached, also out
\* of StatusReadout after the statuses were read.
performPostLoginFlow(row) ==
    IF row.fail.cold # Never
    THEN [threw |-> TRUE, trace |-> SubSeq(ColdStates, 1, row.fail.cold), result |-> NotFoundPair]
    ELSE [threw |-> FALSE, trace |-> ColdStates, result |-> StatusReadout(row)]

\* Cold flow of the server copy.  It can reject after 0 states
\* (waitForLoadState and the first wait) and after 5 (the wait at the
\* start of Step 7, the Continue click and the wait after it).  A page that stops answering before the
\* Continue click has been passed rejects the flow at the next await
\* outside a try block; after it every step is inside its own try block
\* and capture() swallows its errors: the flow runs on to Step 14 and
\* returns what the two reads give, the statuses when the page stopped
\* answering after they were read.
performPostLoginFlowServer(row) ==
    LET k == row.fail.cold
    IN IF k # Never /\ k <= 5
       THEN [threw |-> TRUE, trace |-> SubSeq(ColdStates, 1, IF k = 0 THEN 0 ELSE 5),
             result |-> NotFoundPair]
       ELSE IF k # Never /\ k < Len(ColdStates)
       THEN [threw |-> FALSE, trace |-> ColdStates, result |-> NotFoundPair]
       ELSE [threw |-> FALSE, trace |-> ColdStates, result |-> StatusReadout(row)]

\* performFlow of the older copy: navigation, sign-in and the steps up to
\* the two reads in one function.  An action that is not followed by
\* .catch rejects the call from its step; Confirm and the reads are caught.
performFlow(row) ==
    IF row.fail.full # Never
    THEN [threw |-> TRUE, trace |-> SubSeq(FullStates, 1, row.fail.full), result |-> NotFoundPair]
    ELSE [threw |-> FALSE, trace |-> FullStates, result |-> StatusReadout(row)]

\* a warm flow that gives up when the link is missing
WarmFallbackGivesUp(row) ==
    [threw |-> FALSE, trace |-> SubSeq(WarmStates, 1, 1), result |-> NotFoundPair]

\* return await performPostLoginFlow({ page, tin, address, unit }) of the
\* branch without a link: the same row, the full cold flow
WarmFallback(row) == performPostLoginFlow(row)

\* Warm flow.  Everything thrown inside it is caught and becomes the
\* "Not found" pair: the wait before the link is looked for and the click
\* on the link (no state entered), the cold flow it runs when no link is
\* visible, and the awaits of its three states, the wait after the reads
\* included (the statuses read are dropped).
processNextAddress(row) ==
    IF row.fail.warm = 0
    THEN [threw |-> FALSE, trace |-> <<>>, result |-> NotFoundPair]
    ELSE IF ~row.link
    THEN LET cold == WarmFallback(row)
         IN IF cold.threw
            THEN [threw |-> FALSE, trace |-> cold.trace, result |-> NotFoundPair]
            ELSE cold
    ELSE IF row.fail.warm # Never
         THEN [threw |-> FALSE, trace |-> SubSeq(WarmStates, 1, row.fail.warm),
               result |-> NotFoundPair]
         ELSE [threw |-> FALSE, trace |-> WarmStates, result |-> StatusReadout(row)]

\* Warm flow of the server copy: the same two try blocks, but no wait
\* before the link is looked for and none after the reads.  The click on
\* the link and page.title() reject with no state entered, the fill of
\* the address field inside AddressAndUnitEntry; from the Confirm step
\* on everything is inside a try block of its own, so a page that stops
\* answering there leaves the reads empty, and one that stops answering
\* after the reads leaves the statuses as read.
processNextAddressServer(row) ==
    LET k == row.fail.warm
    IN IF k = 0
       THEN [threw |-> FALSE, trace |-> <<>>, result |-> NotFoundPair]
       ELSE IF ~row.link
       THEN LET cold == performPostLoginFlowServer(row)
            IN IF cold.threw
               THEN [threw |-> FALSE, trace |-> cold.trace, result |-> NotFoundPair]
               ELSE cold
       ELSE IF k = 1
       THEN [threw |-> FALSE, trace |-> SubSeq(WarmStates, 1, 1), result |-> NotFoundPair]
       ELSE IF k = 2
       THEN [threw |-> FALSE, trace |-> WarmStates, result |-> NotFoundPair]
       ELSE [threw |-> FALSE, trace |-> WarmStates, result |-> StatusReadout(row)]

\* result && (meterStatus !== "Not found" || propertyStatus !== "Not found")
HasStatus(result) ==
    result.meterStatus # NotFound \/ result.propertyStatus # NotFound

\* rows.length > MAX_BATCH_SIZE, checked by the railway variant only
TooLarge(variant, n) == variant = "railway" /\ n > MAX_BATCH_SIZE

\* rows.map(row => buildAddressAndUnitFromRow(row).address) in the first
\* console.log of the server variant: throws on a row that is not an object
RowsLogThrows(variant, rows) ==
    variant = "server" /\ \E k \in 1..Len(rows) : ~rows[k].wellFormed

\* ------------------------------------------------------------- the store
Param(params, k) == IF k <= Len(params) THEN params[k] ELSE Undefined

\* const now = new Date().toISOString() of the submitting call
Now == "now"

JobRec(jobId, status, total, processed) ==
    [jobId |-> jobId, createdAt |-> Now, status |-> status, total |-> total,
     processed |-> processed]

\* better-sqlite3 on a job_id (PRIMARY KEY) the table already holds:
\* SqliteError 'UNIQUE constraint failed: jobs.job_id'
InsertJobThrows(store, J, jobId) ==
    store = "sqlite" /\ \E j \in J : j.jobId = jobId

\* the INSERT INTO jobs left out
InsertJobDropped(store, J, jobId, status, total, processed) == J

\* INSERT INTO jobs(job_id, created_at, status, total, processed)
\* sqlite leaves the table as it was when the statement throws; the Map
\* mock runs jobs.set(jobId, ...), which replaces an entry with that key
InsertJob(store, J, jobId, status, total, processed) ==
    IF store = "sqlite"
    THEN IF InsertJobThrows(store, J, jobId) THEN J
         ELSE J \cup {JobRec(jobId, status, total, processed)}
    ELSE {j \in J : j.jobId # jobId} \cup {JobRec(jobId, status, total, processed)}

\* an update that rewrites the whole job row from the counter
UpdateProcessedWholeRow(store, J, params) ==
    {IF j.jobId = Param(params, 2)
     THEN [j EXCEPT !.processed = Param(params, 1), !.total = Param(params, 1),
                    !.status = "running"]
     ELSE j : j \in J}

\* UPDATE jobs SET processed = ? WHERE job_id = ?
\* both stores read params as (processed, jobId)
UpdateProcessed(store, J, params) ==
    {IF j.jobId = Param(params, 2) THEN [j EXCEPT !.processed = Param(params, 1)] ELSE j : j \in J}

\* UPDATE jobs SET status = '<literal>' WHERE job_id = ?
\* sqlite binds the single parameter to job_id and takes the status from
\* the SQL text; the Map mock destructures [status, jobId] = params.
UpdateStatus(store, J, literal, params) ==
    IF store = "sqlite"
    THEN {IF j.jobId = Param(params, 1) THEN [j EXCEPT !.status = literal] ELSE j : j \in J}
    ELSE {IF j.jobId = Param(params, 2) THEN [j EXCEPT !.status = Param(params, 1)] ELSE j : j \in J}

ResultRec(id, jobId, rowIndex, meterStatus, propertyStatus, error, captured) ==
    [id |-> id, jobId |-> jobId, rowIndex |-> rowIndex, meterStatus |-> meterStatus,
     propertyStatus |-> propertyStatus, error |-> error, statusCaptured |-> captured]

\* a results table that drops every write
InsertResultDropped(store, R, nextId, jobId, rowIndex, meterStatus, propertyStatus, error, captured) == R

\* INSERT OR REPLACE INTO results(...): sqlite replaces the row with the
\* same PRIMARY KEY (job_id, row_index); the Map mock stores under a fresh
\* id taken from nextResultId.
InsertResult(store, R, nextId, jobId, rowIndex, meterStatus, propertyStatus, error, captured) ==
    IF store = "sqlite"
    THEN {r \in R : ~(r.jobId = jobId /\ r.rowIndex = rowIndex)}
            \cup {ResultRec(0, jobId, rowIndex, meterStatus, propertyStatus, error, captured)}
    ELSE R \cup {ResultRec(nextId, jobId, rowIndex, meterStatus, propertyStatus, error, captured)}

NextResultId(store, nextId) == IF store = "sqlite" THEN nextId ELSE nextId + 1

RECURSIVE SortByRowIndex(_)
SortByRowIndex(S) ==
    IF S = {} THEN <<>>
    ELSE LET first == CHOOSE r \in S : \A q \in S :
                          r.rowIndex < q.rowIndex \/ (r.rowIndex = q.rowIndex /\ r.id <= q.id)
         IN <<first>> \o SortByRowIndex(S \ {first})

\* a listing that leaves out the WHERE job_id = ? clause
ListResultsUnfiltered(R, jobId) == SortByRowIndex(R)

\* SELECT * FROM results WHERE job_id = ? ORDER BY row_index
ListResults(R, jobId) == SortByRowIndex({r \in R : r.jobId = jobId})

\* ------------------------------------------------------------------ state
VARIABLES
    store,          \* which ensureDatabase() the deployment imports
    variant,        \* which services/batch.js the deployment runs
    jobs,           \* the jobs table / Map
    results,        \* the results table / Map
    nextResultId,   \* the mock's result id counter
    events,         \* what has been handed to progressCallback, in order
    call,           \* the submission made through the exported function
    task,           \* the fire-and-forget background tasks
    queue,          \* the batch loop of runQueueBatchLookup
    turn,           \* the task that is inside a synchronous run, 0 if none
    probe,          \* the last call of a helper function: its input and output
    registry        \* activeConnections of index.js and the clients behind it

vars == <<store, variant, jobs, results, nextResultId, events, call, task, queue, turn, probe,
          registry>>

\* batches.length of runQueueBatchLookup
NumBatches(n) == (n + QUEUE_SIZE - 1) \div QUEUE_SIZE

\* rows.slice(i, i + QUEUE_SIZE) for the batch with 0-based index b
Batch(rows, b) ==
    SubSeq(rows, b * QUEUE_SIZE + 1,
           IF (b + 1) * QUEUE_SIZE < Len(rows) THEN (b + 1) * QUEUE_SIZE ELSE Len(rows))

\* one background task per runBatchLookup call or per batch of the queue
TaskIds == 1..NumBatches(MAX_BATCH_SIZE + 1)

\* the caller of runQueueBatchLookup, as a process next to the tasks
QueueProc == 0 - 1

ErrorMessage == "Timeout 15000ms exceeded"

IdleTask ==
    [pc |-> "idle", kind |-> "job", jobId |-> Null, rows |-> <<>>, hasCallback |-> FALSE,
     i |-> 0, processed |-> 0, needsFullFlow |-> TRUE,
     result |-> NotFoundPair, pending |-> Null, log |-> <<>>,
     browser |-> "none", hasPage |-> FALSE, logins |-> 0, loggedIn |-> FALSE,
     callbackThrew |-> FALSE, rejected |-> FALSE]

IdleQueue == [pc |-> "idle", batchIndex |-> 0, totalProcessed |-> 0]

NoCall == [op |-> "none", rows |-> <<>>, callback |-> "absent", outcome |-> "none", jobId |-> Null]

\* no helper has been called on its own
NoProbe == [op |-> "none", writes |-> 0]

\* the clients that open GET /api/jobs/:jobId/progress
Clients == 1..NumClients

\* const activeConnections = new Map(): active[jobId] is the client whose
\* response object is stored under jobId, 0 when the Map has no entry.
\* conn, since and received describe the clients: the state of a client's
\* connection, how many events had been pushed when it connected, and the
\* events (by their position in events) written to it.
NoRegistry ==
    [active |-> [j \in JobIds |-> 0],
     conn |-> [c \in Clients |-> "none"],
     since |-> [c \in Clients |-> 0],
     received |-> [c \in Clients |-> <<>>]]

\* the branch of the row's try block that stores the flow's result: the
\* older copy has one INSERT for whatever performFlow returned and no
\* status_captured_at column in it
BranchOf(v, result) ==
    IF v = "older" THEN "stored"
    ELSE IF HasStatus(result) THEN "address_completed" ELSE "address_failed"

\* whether the INSERT of a branch passes a status_captured_at: only the
\* success branch creates const statusCapturedAt, the others pass null
StatusCapturedAt(branch) == branch = "address_completed"

\* What an earlier run of the service left in server-data.sqlite or in
\* /tmp/fpl_database.json: a finished job of one row with its Result.
\* The Map store never applied the run's UPDATE jobs SET status =
\* 'completed' (see UpdateStatus), so its file holds the job as running.
OldJob(kind) ==
    [jobId |-> "old", createdAt |-> "earlier",
     status |-> IF kind = "sqlite" THEN "completed" ELSE "running",
     total |-> 1, processed |-> 1]

\* The Result of that job's row, as the copy v of the scheduler wrote it
\* on the success path: the older copy's INSERT names eight columns and
\* leaves status_captured_at NULL, the other copies pass the capture time.
OldResult(kind, v) ==
    ResultRec(IF kind = "sqlite" THEN 0 ELSE 1, "old", 0, "Active", "Occupied", Null,
              StatusCapturedAt(BranchOf(v, [meterStatus |-> "Active", propertyStatus |-> "Occupied"])))

\* ensureDatabase() on first use: new Database(dbPath) opens the file an
\* earlier run wrote, createDatabase() takes jobs, results and
\* nextResultId from loadData(); without a file the store is empty and
\* nextResultId is 1.
Init ==
    /\ probe = NoProbe
    /\ registry = NoRegistry
    /\ store \in StoreKinds
    /\ variant \in Variants
    /\ \E loaded \in BOOLEAN :
          /\ jobs = IF loaded THEN {OldJob(store)} ELSE {}
          /\ results = IF loaded THEN {OldResult(store, variant)} ELSE {}
          /\ nextResultId = IF loaded /\ store = "memory" THEN 2 ELSE 1
    /\ events = <<>>
    /\ call = NoCall
    /\ task = [t \in TaskIds |-> IdleTask]
    /\ queue = IdleQueue
    /\ turn = 0

\* ---------------------------------------------------------------- helpers
\* every event literal of the schedulers has a message: built from the
\* counts it is sent with
Event(jobId, type, processed, total) ==
    [jobId |-> jobId, type |-> type, processed |-> processed, total |-> total,
     message |-> <<type, processed, total>>]

\* the batch_started literal: jobId, total, batchIndex, totalBatches and
\* message, no processed
EventWithoutProcessed(jobId, type, total) ==
    [jobId |-> jobId, type |-> type, total |-> total, message |-> <<type, total>>]

\* What a call of the progress callback can do
CallbackOutcomes(mode) == IF mode = "throwing" THEN {"ok", "throws"} ELSE {"ok"}

\* The callbacks a caller can pass: the server variant takes none
CallbacksOf(v) == IF v = "railway" THEN CallbackModes ELSE {"absent"}

\* The callbacks the model passes with a batch: a callback that may throw
\* only with the batches of up to MaxRows rows, and no callback with the
\* batches the queue splits
CallbacksFor(v, op, rows) ==
    IF Len(rows) <= MaxRows THEN CallbacksOf(v)
    ELSE IF op = "runBatchLookup" THEN CallbacksOf(v) \ {"throwing"}
    ELSE {"absent"}

\* pc values at which the task is suspended in an await
AwaitPoints == {"idle", "launch", "newContext", "newPage", "login", "wait", "flow", "finally",
                "done", "crashed"}

NextTurn(t, pc) == IF pc \in AwaitPoints THEN 0 ELSE t

\* A continuation runs when the event loop is free or is already running
\* its task.  A rejection of launch, newContext or newPage in the
\* background function is an unhandled rejection: Node ends the process,
\* and no continuation of any task or of the queue runs after it.
MayRun(t) ==
    /\ turn \in {0, t}
    /\ \A u \in TaskIds : task[u].pc # "crashed"

\* the callback the task holds hands its events to the caller's callback
Pushes(T) == T.hasCallback /\ call.callback # "absent"

\* the counter advanced twice for a row
NextProcessedTwice(p) == p + 2

\* processed += 1
NextProcessed(p) == p + 1

\* needsFullFlow after the flow call: only a cold flow that returned
\* clears it (line 301 is not reached when the flow throws)
NeedsFullFlowAfterFlow(current, threw) ==
    IF current /\ ~threw THEN FALSE ELSE current

\* the no-status branch without its needsFullFlow = true
NeedsFullFlowNotForced(current, pending) == current

\* needsFullFlow after the row was classified and its event pushed: the
\* no-status branch ends with needsFullFlow = true
NeedsFullFlowAfterNotify(current, pending) ==
    IF pending = "address_failed" THEN TRUE ELSE current

\* no browser handle comes out of the launch
BrowserAfterLaunchNone(outcome) == "none"

\* the browser handle after chromium.launch: a browser process exists as
\* soon as the call resolved
BrowserAfterLaunch(outcome) == IF outcome = "launchFails" THEN "none" ELSE "open"

\* how often safeLoginFlow has run after a row's flow: no flow calls it
\* (performFlow of the older copy signs in with its own step 4)
LoginsAfterFlow(logins, entry) == logins

\* the stored count sent with the row's event
RowEventProcessedStored(i) == i

\* processed: i + 1 in the address_completed / address_failed /
\* address_error events
RowEventProcessed(i) == i + 1

\* where the row's try block continues after the flow call: the
\* classification and the INSERT when it returned, the catch when it threw
PcAfterFlow(threw) == IF threw THEN "rowCatch" ELSE "persist"

\* the entry the scheduler picks for the row
EntryMode(needsFullFlow) == IF needsFullFlow THEN "cold" ELSE "warm"

\* the flow run for an entry mode
RunFlow(entry, row) ==
    IF entry = "cold" THEN performPostLoginFlow(row) ELSE processNextAddress(row)

\* the flow a copy of the scheduler calls for the row, each copy its own:
\* the older copy has performFlow only and runs it from the navigation on
\* for every row
FlowOf(v, entry, row) ==
    IF v = "older" THEN performFlow(row)
    ELSE IF v = "server"
    THEN (IF entry = "cold" THEN performPostLoginFlowServer(row)
          ELSE processNextAddressServer(row))
    ELSE RunFlow(entry, row)

\* a log entry for a row that was sent to the row's catch before any flow
\* was called
NoFlowEntry(i) ==
    [rowIndex |-> i, entry |-> "none", trace |-> <<>>, out |-> "exception",
     recorded |-> "pending", writes |-> 0]

\* how the flow call ended, as the scheduler classifies it
FlowOutcome(f) ==
    IF f.threw THEN "exception" ELSE IF HasStatus(f.result) THEN "status" ELSE "sentinel"

\* mark how the row in flight was recorded
Recorded(log, how) == [log EXCEPT ![Len(log)].recorded = how]

\* how many times db.prepare("INSERT OR REPLACE INTO results ...").run(...)
\* has been called for the row in flight, after one more call
WritesAfterInsert(w) == w + 1

\* count a Result write for the row in flight
Written(log) == [log EXCEPT ![Len(log)].writes = WritesAfterInsert(@)]

\* ------------------------------------------------------ runBatchLookup
\* rows.length > MAX_BATCH_SIZE, or a row the opening log cannot format:
\* throws before anything is created
SubmitRejected(rows, cb) ==
    /\ call.op = "none"
    /\ \/ TooLarge(variant, Len(rows))
       \/ RowsLogThrows(variant, rows)
       \/ \E jobId \in JobIds : InsertJobThrows(store, jobs, jobId)
    /\ call' = [op |-> "runBatchLookup", rows |-> rows, callback |-> cb,
                outcome |-> "threw", jobId |-> Null]
    /\ UNCHANGED <<registry, probe, store, variant, jobs, results, nextResultId, events, task, queue, turn>>

\* INSERT INTO jobs, job_started, start the background task, return
SubmitAccepted(rows, cb, jobId, cbOutcome) ==
    /\ call.op = "none"
    /\ ~TooLarge(variant, Len(rows))
    /\ ~RowsLogThrows(variant, rows)
    /\ ~InsertJobThrows(store, jobs, jobId)
    /\ jobs' = InsertJob(store, jobs, jobId, "running", Len(rows), 0)
    /\ events' = IF cb = "absent" THEN events
                 ELSE Append(events, Event(jobId, "job_started", 0, Len(rows)))
    /\ IF cb # "absent" /\ cbOutcome = "throws"
       THEN /\ call' = [op |-> "runBatchLookup", rows |-> rows, callback |-> cb,
                        outcome |-> "threw", jobId |-> jobId]
            /\ task' = task
       ELSE /\ call' = [op |-> "runBatchLookup", rows |-> rows, callback |-> cb,
                        outcome |-> "returned", jobId |-> jobId]
            /\ task' = [task EXCEPT ![1] = [IdleTask EXCEPT
                            !.pc = "launch", !.jobId = jobId, !.rows = rows,
                            !.hasCallback = (cb # "absent")]]
    /\ UNCHANGED <<registry, probe, store, variant, results, nextResultId, queue, turn>>

\* const browser = await chromium.launch({ headless }), outside the try
\* block: a rejection ends the background function
Launch(t, outcome) ==
    /\ task[t].pc = "launch"
    /\ MayRun(t)
    /\ task' = [task EXCEPT
            ![t].pc = IF outcome = "ok" THEN "newContext" ELSE "crashed",
            ![t].browser = BrowserAfterLaunch(outcome),
            ![t].rejected = (outcome # "ok")]
    /\ turn' = 0
    /\ UNCHANGED <<registry, probe, store, variant, jobs, results, nextResultId, events, call, queue>>

\* const context = await browser.newContext(), outside the try block
NewContext(t, outcome) ==
    /\ task[t].pc = "newContext"
    /\ MayRun(t)
    /\ task' = [task EXCEPT
            ![t].pc = IF outcome = "ok" THEN "newPage" ELSE "crashed",
            ![t].rejected = (outcome # "ok")]
    /\ turn' = 0
    /\ UNCHANGED <<registry, probe, store, variant, jobs, results, nextResultId, events, call, queue>>

\* const page = await context.newPage(), outside the try block; then
\* let processed = 0 and the try block is entered: safeLoginFlow first,
\* or the row loop in the older copy, which has no sign-in of its own
NewPage(t, outcome) ==
    LET pc == IF outcome = "ok" THEN (IF variant = "older" THEN "rowStart" ELSE "login")
                                  ELSE "crashed"
    IN /\ task[t].pc = "newPage"
       /\ MayRun(t)
       /\ task' = [task EXCEPT
               ![t].pc = pc,
               ![t].hasPage = (outcome = "ok"),
               ![t].rejected = (outcome # "ok")]
       /\ turn' = NextTurn(t, pc)
       /\ UNCHANGED <<registry, probe, store, variant, jobs, results, nextResultId, events, call, queue>>

\* safeLoginFlow, inside the outer try
Login(t, ok) ==
    /\ task[t].pc = "login"
    /\ MayRun(t)
    /\ task' = [task EXCEPT
            ![t].pc = IF ok THEN "rowStart" ELSE "fatal",
            ![t].logins = @ + 1,
            ![t].loggedIn = ok]
    /\ turn' = t
    /\ UNCHANGED <<registry, probe, store, variant, jobs, results, nextResultId, events, call, queue>>

\* for (i < rows.length) { buildAddressAndUnitFromRow(row) ...
\* railway normalises the row before the row's try, the other copies
\* inside it
RowStart(t) ==
    LET T == task[t]
        pc == IF T.i >= Len(T.rows) THEN "complete"
              ELSE IF T.rows[T.i + 1].wellFormed
                   THEN (IF variant = "railway" /\ T.i > 0 THEN "wait" ELSE "flow")
              ELSE IF variant = "railway" THEN "fatal" ELSE "rowCatch"
    IN /\ T.pc = "rowStart"
       /\ MayRun(t)
       /\ task' = [task EXCEPT ![t].pc = pc,
                               ![t].log = IF pc = "rowCatch" THEN Append(@, NoFlowEntry(T.i))
                                          ELSE @]
       /\ turn' = NextTurn(t, pc)
       /\ UNCHANGED <<registry, probe, store, variant, jobs, results, nextResultId, events, call, queue>>

\* the 2 second wait between two rows is over, or it rejected because the
\* page is closed: the row's catch takes over and no flow is called
RowWait(t) ==
    LET T == task[t]
        throws == T.rows[T.i + 1].fail.wait
        pc == IF throws THEN "rowCatch" ELSE "flow"
    IN /\ T.pc = "wait"
       /\ MayRun(t)
       /\ task' = [task EXCEPT ![t].pc = pc,
                               ![t].log = IF throws THEN Append(@, NoFlowEntry(T.i)) ELSE @]
       /\ turn' = NextTurn(t, pc)
       /\ UNCHANGED <<registry, probe, store, variant, jobs, results, nextResultId, events, call, queue>>

\* if (needsFullFlow) performPostLoginFlow else processNextAddress
Flow(t) ==
    LET T == task[t]
        row == T.rows[T.i + 1]
        mode == EntryMode(T.needsFullFlow)
        f == FlowOf(variant, mode, row)
        entry == [rowIndex |-> T.i, entry |-> mode, trace |-> f.trace,
                  out |-> FlowOutcome(f), recorded |-> "pending", writes |-> 0]
        pc == PcAfterFlow(f.threw)
    IN /\ T.pc = "flow"
       /\ MayRun(t)
       /\ task' = [task EXCEPT
               ![t].pc = pc,
               ![t].result = f.result,
               ![t].needsFullFlow = IF variant = "older" THEN @
                                    ELSE NeedsFullFlowAfterFlow(@, f.threw),
               ![t].logins = LoginsAfterFlow(@, mode),
               ![t].log = Append(@, entry)]
       /\ turn' = NextTurn(t, pc)
       /\ UNCHANGED <<registry, probe, store, variant, jobs, results, nextResultId, events, call, queue>>

\* classify the flow's result and INSERT OR REPLACE the row's Result
Persist(t) ==
    LET T == task[t]
        branch == BranchOf(variant, T.result)
    IN /\ T.pc = "persist"
       /\ MayRun(t)
       /\ results' = IF branch # "address_failed"
             THEN InsertResult(store, results, nextResultId, T.jobId, T.i,
                               OrNull(T.result.meterStatus), OrNull(T.result.propertyStatus),
                               Null, StatusCapturedAt(branch))
             ELSE InsertResult(store, results, nextResultId, T.jobId, T.i,
                               Null, Null, "No status found",
                               StatusCapturedAt(branch))
       /\ nextResultId' = NextResultId(store, nextResultId)
       /\ task' = [task EXCEPT
               ![t].pc = IF variant = "older" THEN "bump" ELSE "notify",
               ![t].log = IF variant = "older" THEN Recorded(Written(@), branch) ELSE Written(@),
               ![t].pending = IF variant = "older" THEN Null ELSE branch]
       /\ turn' = t
       /\ UNCHANGED <<registry, probe, store, variant, jobs, events, call, queue>>

\* progressCallback(address_completed | address_failed); after a failed
\* row needsFullFlow = true
Notify(t, cbOutcome) ==
    LET T == task[t]
        threw == T.hasCallback /\ cbOutcome = "throws"
    IN /\ T.pc = "notify"
       /\ MayRun(t)
       /\ events' = IF Pushes(T)
                    THEN Append(events, Event(T.jobId, T.pending, RowEventProcessed(T.i), Len(T.rows)))
                    ELSE events
       /\ task' = [task EXCEPT
               ![t].pc = IF threw THEN "rowCatch" ELSE "bump",
               ![t].callbackThrew = @ \/ threw,
               ![t].needsFullFlow = IF threw THEN @ ELSE NeedsFullFlowAfterNotify(@, T.pending),
               ![t].log = IF threw THEN @ ELSE Recorded(@, T.pending),
               ![t].pending = Null]
       /\ turn' = t
       /\ UNCHANGED <<registry, probe, store, variant, jobs, results, nextResultId, call, queue>>

\* catch (error) of the row.  railway and the older copy record the row
\* with the error's message (the older copy without address and unit); in
\* the server variant the handler reads address and unit, which are const
\* bindings of the try block, and throws a ReferenceError.
RowCatch(t) ==
    LET T == task[t]
    IN /\ T.pc = "rowCatch"
       /\ MayRun(t)
       /\ IF variant # "server"
          THEN /\ results' = InsertResult(store, results, nextResultId, T.jobId, T.i,
                                          Null, Null, OrUnknown(ErrorMessage),
                                          StatusCapturedAt("address_error"))
               /\ nextResultId' = NextResultId(store, nextResultId)
               /\ task' = [task EXCEPT
                       ![t].pc = IF variant = "older" THEN "bump" ELSE "rowCatchNotify",
                       ![t].log = Recorded(Written(@), "address_error"),
                       ![t].pending = IF variant = "older" THEN Null ELSE "address_error"]
          ELSE /\ task' = [task EXCEPT ![t].pc = "fatal"]
               /\ UNCHANGED <<results, nextResultId>>
       /\ turn' = t
       /\ UNCHANGED <<registry, probe, store, variant, jobs, events, call, queue>>

\* progressCallback(address_error); needsFullFlow = true
RowCatchNotify(t, cbOutcome) ==
    LET T == task[t]
        threw == T.hasCallback /\ cbOutcome = "throws"
    IN /\ T.pc = "rowCatchNotify"
       /\ MayRun(t)
       /\ events' = IF Pushes(T)
                    THEN Append(events, Event(T.jobId, T.pending, RowEventProcessed(T.i), Len(T.rows)))
                    ELSE events
       /\ task' = [task EXCEPT
               ![t].pc = IF threw THEN "fatal" ELSE "bump",
               ![t].callbackThrew = @ \/ threw,
               ![t].needsFullFlow = IF threw THEN @ ELSE TRUE,
               ![t].pending = Null]
       /\ turn' = t
       /\ UNCHANGED <<registry, probe, store, variant, jobs, results, nextResultId, call, queue>>

\* processed += 1; UPDATE jobs SET processed (not in a queue batch); i += 1
Bump(t) ==
    LET T == task[t]
        p == NextProcessed(T.processed)
    IN /\ T.pc = "bump"
       /\ MayRun(t)
       /\ jobs' = IF T.kind = "job" THEN UpdateProcessed(store, jobs, <<p, T.jobId>>) ELSE jobs
       /\ task' = [task EXCEPT ![t].pc = "rowStart", ![t].processed = p, ![t].i = @ + 1]
       /\ turn' = t
       /\ UNCHANGED <<registry, probe, store, variant, results, nextResultId, events, call, queue>>

\* after the loop: UPDATE jobs SET status = 'completed' (not in a queue batch)
Complete(t) ==
    LET T == task[t]
    IN /\ T.pc = "complete"
       /\ MayRun(t)
       /\ jobs' = IF T.kind = "job"
                  THEN UpdateStatus(store, jobs, "completed", <<T.jobId>>)
                  ELSE jobs
       /\ task' = [task EXCEPT ![t].pc = "completeNotify",
                               ![t].pending = IF T.kind = "job" THEN "job_completed"
                                              ELSE "batch_completed"]
       /\ turn' = t
       /\ UNCHANGED <<registry, probe, store, variant, results, nextResultId, events, call, queue>>

\* progressCallback(job_completed), still inside the outer try.  In a
\* queue batch the event's message reads batch.length, and batch is not
\* bound in runBatchLookupWithJobId: building the event throws.
CompleteNotify(t, cbOutcome) ==
    LET T == task[t]
        unbound == T.kind = "chunk" /\ T.hasCallback
        threw == unbound \/ (T.hasCallback /\ cbOutcome = "throws")
    IN /\ T.pc = "completeNotify"
       /\ MayRun(t)
       /\ events' = IF Pushes(T) /\ ~unbound
                    THEN Append(events, Event(T.jobId, T.pending, T.processed, Len(T.rows)))
                    ELSE events
       /\ task' = [task EXCEPT
               ![t].pc = IF threw THEN "fatal" ELSE "finally",
               ![t].callbackThrew = @ \/ (threw /\ ~unbound),
               ![t].pending = Null]
       /\ turn' = NextTurn(t, IF threw THEN "fatal" ELSE "finally")
       /\ UNCHANGED <<registry, probe, store, variant, jobs, results, nextResultId, call, queue>>

\* the status the outer catch writes
FatalStatus(v, processed) ==
    IF v = "railway" /\ processed > 0 THEN "completed" ELSE "failed"

\* catch (e) of the whole task
Fatal(t) ==
    LET T == task[t]
        status == FatalStatus(variant, T.processed)
    IN /\ T.pc = "fatal"
       /\ MayRun(t)
       /\ jobs' = IF T.kind = "job" THEN UpdateStatus(store, jobs, status, <<T.jobId>>) ELSE jobs
       /\ task' = [task EXCEPT
               ![t].pc = "fatalNotify",
               ![t].pending = IF T.kind = "job"
                              THEN (IF status = "completed" THEN "job_completed" ELSE "job_failed")
                              ELSE (IF T.processed > 0 THEN "batch_completed" ELSE "batch_failed")]
       /\ turn' = t
       /\ UNCHANGED <<registry, probe, store, variant, results, nextResultId, events, call, queue>>

\* progressCallback(job_completed | job_failed) inside the outer catch
FatalNotify(t, cbOutcome) ==
    LET T == task[t]
        threw == T.hasCallback /\ cbOutcome = "throws"
    IN /\ T.pc = "fatalNotify"
       /\ MayRun(t)
       /\ events' = IF Pushes(T)
                    THEN Append(events, Event(T.jobId, T.pending, T.processed, Len(T.rows)))
                    ELSE events
       /\ task' = [task EXCEPT
               ![t].pc = "finally",
               ![t].callbackThrew = @ \/ threw,
               ![t].rejected = threw,
               ![t].pending = Null]
       /\ turn' = 0
       /\ UNCHANGED <<registry, probe, store, variant, jobs, results, nextResultId, call, queue>>

\* finally { await browser.close() }
Finally(t) ==
    /\ task[t].pc = "finally"
    /\ MayRun(t)
    /\ task' = [task EXCEPT ![t].pc = "done", ![t].browser = "closed"]
    /\ turn' = 0
    /\ UNCHANGED <<registry, probe, store, variant, jobs, results, nextResultId, events, call, queue>>

\* ----------------------------------------------------- runSingleLookup
\* the addresses a single lookup is asked for, with what the portal shows
SingleInputs == {RowBoth, RowMeterOnly, RowPropOnly, RowNone, RowThrow, RowClosed, RowLate}

\* try { await safeLoginFlow(...); ... } finally { ... }
SingleAfterLogin(ok) == IF ok THEN "singleFlow" ELSE "singleFinally"

\* the lookup leaving a job record behind
JobsAfterSingleLookupLogged(J) == J \cup {JobRec("single", "completed", 1, 1)}

\* the jobs table after runSingleLookup: the function has no db call
JobsAfterSingleLookup(J) == J

\* runSingleLookup(...): clearArtifacts, then wait for chromium.launch
SingleSubmit(row) ==
    /\ call.op = "none"
    /\ call' = [op |-> "runSingleLookup", rows |-> <<row>>, callback |-> "absent",
                outcome |-> "pending", jobId |-> Null]
    /\ task' = [task EXCEPT ![1] = [IdleTask EXCEPT
                    !.pc = "singleLaunch", !.kind = "single", !.rows = <<row>>]]
    /\ UNCHANGED <<registry, probe, store, variant, jobs, results, nextResultId, events, queue, turn>>

\* const browser = await chromium.launch({ headless }), before the try
\* block: a rejection here settles the call at once
SingleLaunch(outcome) ==
    /\ task[1].pc = "singleLaunch"
    /\ task' = [task EXCEPT
            ![1].pc = IF outcome = "ok" THEN "singleNewContext" ELSE "singleSettled",
            ![1].browser = BrowserAfterLaunch(outcome),
            ![1].rejected = (outcome # "ok")]
    /\ call' = IF outcome = "ok" THEN call ELSE [call EXCEPT !.outcome = "threw"]
    /\ UNCHANGED <<registry, probe, store, variant, jobs, results, nextResultId, events, queue, turn>>

\* const context = await browser.newContext(), before the try block
SingleNewContext(outcome) ==
    /\ task[1].pc = "singleNewContext"
    /\ task' = [task EXCEPT
            ![1].pc = IF outcome = "ok" THEN "singleNewPage" ELSE "singleSettled",
            ![1].rejected = (outcome # "ok")]
    /\ call' = IF outcome = "ok" THEN call ELSE [call EXCEPT !.outcome = "threw"]
    /\ UNCHANGED <<registry, probe, store, variant, jobs, results, nextResultId, events, queue, turn>>

\* const page = await context.newPage(), before the try block
SingleNewPage(outcome) ==
    /\ task[1].pc = "singleNewPage"
    /\ task' = [task EXCEPT
            ![1].pc = IF outcome = "ok" THEN (IF variant = "older" THEN "singleFlow" ELSE "singleLogin")
                          ELSE "singleSettled",
            ![1].hasPage = (outcome = "ok"),
            ![1].rejected = (outcome # "ok")]
    /\ call' = IF outcome = "ok" THEN call ELSE [call EXCEPT !.outcome = "threw"]
    /\ UNCHANGED <<registry, probe, store, variant, jobs, results, nextResultId, events, queue, turn>>

\* await safeLoginFlow({ page, username, password })
SingleLogin(ok) ==
    /\ task[1].pc = "singleLogin"
    /\ task' = [task EXCEPT
            ![1].pc = SingleAfterLogin(ok),
            ![1].logins = @ + 1,
            ![1].loggedIn = ok,
            ![1].rejected = ~ok]
    /\ UNCHANGED <<registry, probe, store, variant, jobs, results, nextResultId, events, call, queue, turn>>

\* const result = await performPostLoginFlow({ page, tin, address, unit })
\* (performFlow in the older copy)
SingleFlow ==
    LET T == task[1]
        f == FlowOf(variant, "cold", T.rows[1])
        entry == [rowIndex |-> 0, entry |-> "cold", trace |-> f.trace,
                  out |-> FlowOutcome(f), recorded |-> "returned", writes |-> 0]
    IN /\ T.pc = "singleFlow"
       /\ task' = [task EXCEPT
               ![1].pc = "singleFinally",
               ![1].result = f.result,
               ![1].rejected = f.threw,
               ![1].logins = LoginsAfterFlow(@, "cold"),
               ![1].log = Append(@, entry)]
       /\ UNCHANGED <<registry, probe, store, variant, jobs, results, nextResultId, events, call, queue, turn>>

\* finally { await browser.close() }
SingleFinally ==
    /\ task[1].pc = "singleFinally"
    /\ task' = [task EXCEPT ![1].pc = "singleSettle", ![1].browser = "closed"]
    /\ UNCHANGED <<registry, probe, store, variant, jobs, results, nextResultId, events, call, queue, turn>>

\* the promise of the call settles: { address, unit, ...result } or the
\* error thrown inside the try block
SingleSettle ==
    /\ task[1].pc = "singleSettle"
    /\ task' = [task EXCEPT ![1].pc = "singleSettled"]
    /\ call' = [call EXCEPT !.outcome = IF task[1].rejected THEN "threw" ELSE "returned"]
    /\ jobs' = JobsAfterSingleLookup(jobs)
    /\ UNCHANGED <<registry, probe, store, variant, results, nextResultId, events, queue, turn>>

\* ----------------------------------------------------- GET /api/test-db
\* the key `test-${Date.now()}` of the diagnostic entry
TestKey == "test-1"

\* INSERT INTO jobs ... .run(testKey, now, 'test', 1, 1)
TestDb ==
    /\ call.op = "none"
    /\ ~InsertJobThrows(store, jobs, TestKey)
    /\ jobs' = InsertJob(store, jobs, TestKey, "test", 1, 1)
    /\ call' = [op |-> "testDb", rows |-> <<>>, callback |-> "absent",
                outcome |-> "returned", jobId |-> TestKey]
    /\ UNCHANGED <<registry, probe, store, variant, results, nextResultId, events, task, queue, turn>>

\* -------------------------------------------------- runQueueBatchLookup
QueueCall(rows, cb, outcome, jobId) ==
    [op |-> "runQueueBatchLookup", rows |-> rows, callback |-> cb,
     outcome |-> outcome, jobId |-> jobId]

\* for (batchIndex < batches.length): the next batch, or the end of the loop
QueueLoopPc(rows, b) == IF b < NumBatches(Len(rows)) THEN "startChunk" ELSE "finish"

\* split into batches, INSERT INTO jobs, queue_started.  An INSERT that
\* throws (sqlite, job_id already in the table) rejects the call before
\* queue_started and before any batch.
QueueSubmit(rows, cb, jobId, cbOutcome) ==
    LET threw == cb # "absent" /\ cbOutcome = "throws"
    IN /\ call.op = "none"
       /\ variant = "railway"
       /\ IF InsertJobThrows(store, jobs, jobId)
          THEN /\ call' = QueueCall(rows, cb, "threw", Null)
               /\ queue' = [IdleQueue EXCEPT !.pc = "rejected"]
               /\ turn' = 0
               /\ UNCHANGED <<jobs, events>>
          ELSE /\ jobs' = InsertJob(store, jobs, jobId, "running", Len(rows), 0)
               /\ events' = IF cb = "absent" THEN events
                            ELSE Append(events, Event(jobId, "queue_started", 0, Len(rows)))
               /\ call' = QueueCall(rows, cb, IF threw THEN "threw" ELSE "pending", jobId)
               /\ queue' = [IdleQueue EXCEPT
                                !.pc = IF threw THEN "rejected" ELSE QueueLoopPc(rows, 0)]
               /\ turn' = IF threw THEN 0 ELSE QueueProc
       /\ UNCHANGED <<registry, probe, store, variant, results, nextResultId, task>>

\* await runBatchLookupWithJobId(batch): batch_started, start the batch's
\* background task, return without waiting for it
QueueStartChunk(cbOutcome) ==
    LET b == queue.batchIndex
        threw == cbOutcome = "throws"
    IN /\ queue.pc = "startChunk"
       /\ MayRun(QueueProc)
       /\ events' = IF call.callback = "absent" THEN events
                    ELSE Append(events, EventWithoutProcessed(call.jobId, "batch_started",
                                                              Len(Batch(call.rows, b))))
       /\ task' = IF threw THEN task
                  ELSE [task EXCEPT ![b + 1] = [IdleTask EXCEPT
                            !.pc = "launch", !.kind = "chunk", !.jobId = call.jobId,
                            !.rows = Batch(call.rows, b), !.hasCallback = TRUE]]
       /\ queue' = [queue EXCEPT !.pc = IF threw THEN "chunkCatch" ELSE "afterChunk"]
       /\ turn' = QueueProc
       /\ UNCHANGED <<registry, probe, store, variant, jobs, results, nextResultId, call>>

\* totalProcessed += batch.length; UPDATE jobs SET processed
QueueAfterChunk ==
    LET total == queue.totalProcessed + Len(Batch(call.rows, queue.batchIndex))
    IN /\ queue.pc = "afterChunk"
       /\ MayRun(QueueProc)
       /\ jobs' = UpdateProcessed(store, jobs, <<total, call.jobId>>)
       /\ queue' = [queue EXCEPT !.pc = "chunkNotify", !.totalProcessed = total]
       /\ turn' = QueueProc
       /\ UNCHANGED <<registry, probe, store, variant, results, nextResultId, events, call, task>>

\* batch_completed, then the 30 second wait unless this was the last batch
QueueChunkNotify(cbOutcome) ==
    LET b == queue.batchIndex
        threw == cbOutcome = "throws"
        last == ~(b < NumBatches(Len(call.rows)) - 1)
        pc == IF threw THEN "chunkCatch" ELSE IF last THEN "finish" ELSE "delay"
    IN /\ queue.pc = "chunkNotify"
       /\ MayRun(QueueProc)
       /\ events' = IF call.callback = "absent" THEN events
                    ELSE Append(events, Event(call.jobId, "batch_completed",
                                              queue.totalProcessed, Len(call.rows)))
       /\ queue' = [queue EXCEPT !.pc = pc,
                                 !.batchIndex = IF pc = "finish" THEN b + 1 ELSE b]
       /\ turn' = IF pc = "delay" THEN 0 ELSE QueueProc
       /\ UNCHANGED <<registry, probe, store, variant, jobs, results, nextResultId, call, task>>

\* the 30 seconds are over: next batch
QueueDelay ==
    /\ queue.pc = "delay"
    /\ MayRun(QueueProc)
    /\ queue' = [queue EXCEPT !.pc = QueueLoopPc(call.rows, queue.batchIndex + 1),
                              !.batchIndex = @ + 1]
    /\ turn' = QueueProc
    /\ UNCHANGED <<registry, probe, store, variant, jobs, results, nextResultId, events, call, task>>

\* catch (error) of a batch: batch_failed, then the next batch
QueueChunkCatch(cbOutcome) ==
    LET threw == cbOutcome = "throws"
    IN /\ queue.pc = "chunkCatch"
       /\ MayRun(QueueProc)
       /\ events' = IF call.callback = "absent" THEN events
                    ELSE Append(events, Event(call.jobId, "batch_failed",
                                              queue.totalProcessed, Len(call.rows)))
       /\ queue' = [queue EXCEPT
               !.pc = IF threw THEN "rejected" ELSE QueueLoopPc(call.rows, queue.batchIndex + 1),
               !.batchIndex = IF threw THEN @ ELSE @ + 1]
       /\ call' = IF threw THEN [call EXCEPT !.outcome = "threw"] ELSE call
       /\ turn' = IF threw THEN 0 ELSE QueueProc
       /\ UNCHANGED <<registry, probe, store, variant, jobs, results, nextResultId, task>>

\* after the loop: UPDATE jobs SET status = 'completed'
QueueFinish ==
    /\ queue.pc = "finish"
    /\ MayRun(QueueProc)
    /\ jobs' = UpdateStatus(store, jobs, "completed", <<call.jobId>>)
    /\ queue' = [queue EXCEPT !.pc = "finishNotify"]
    /\ turn' = QueueProc
    /\ UNCHANGED <<registry, probe, store, variant, results, nextResultId, events, call, task>>

\* queue_completed; return {jobId, total}
QueueFinishNotify(cbOutcome) ==
    LET threw == cbOutcome = "throws"
    IN /\ queue.pc = "finishNotify"
       /\ MayRun(QueueProc)
       /\ events' = IF call.callback = "absent" THEN events
                    ELSE Append(events, Event(call.jobId, "queue_completed",
                                              queue.totalProcessed, Len(call.rows)))
       /\ queue' = [queue EXCEPT !.pc = IF threw THEN "rejected" ELSE "returned"]
       /\ call' = [call EXCEPT !.outcome = IF threw THEN "threw" ELSE "returned"]
       /\ turn' = 0
       /\ UNCHANGED <<registry, probe, store, variant, jobs, results, nextResultId, task>>

Next ==
    \/ /\ call.op = "none"
       /\ \E rows \in RowInputs : \E cb \in CallbacksFor(variant, "runBatchLookup", rows) :
             SubmitRejected(rows, cb)
    \/ /\ call.op = "none"
       /\ \E rows \in RowInputs, jobId \in JobIds : \E cb \in CallbacksFor(variant, "runBatchLookup", rows) :
             \E o \in CallbackOutcomes(cb) : SubmitAccepted(rows, cb, jobId, o)
    \/ \E t \in TaskIds, o \in {"ok", "launchFails"} : Launch(t, o)
    \/ \E t \in TaskIds, o \in {"ok", "contextFails"} : NewContext(t, o)
    \/ \E t \in TaskIds, o \in {"ok", "pageFails"} : NewPage(t, o)
    \/ \E t \in TaskIds, ok \in BOOLEAN : Login(t, ok)
    \/ \E t \in TaskIds : RowStart(t)
    \/ \E t \in TaskIds : RowWait(t)
    \/ \E t \in TaskIds : Flow(t)
    \/ \E t \in TaskIds : Persist(t)
    \/ \E t \in TaskIds, o \in CallbackOutcomes(call.callback) : Notify(t, o)
    \/ \E t \in TaskIds : RowCatch(t)
    \/ \E t \in TaskIds, o \in CallbackOutcomes(call.callback) : RowCatchNotify(t, o)
    \/ \E t \in TaskIds : Bump(t)
    \/ \E t \in TaskIds : Complete(t)
    \/ \E t \in TaskIds, o \in CallbackOutcomes(call.callback) : CompleteNotify(t, o)
    \/ \E t \in TaskIds : Fatal(t)
    \/ \E t \in TaskIds, o \in CallbackOutcomes(call.callback) : FatalNotify(t, o)
    \/ \E t \in TaskIds : Finally(t)
    \/ /\ call.op = "none"
       /\ \E rows \in RowInputs, jobId \in JobIds : \E cb \in CallbacksFor(variant, "runQueueBatchLookup", rows) :
             \E o \in CallbackOutcomes(cb) : QueueSubmit(rows, cb, jobId, o)
    \/ \E o \in CallbackOutcomes(call.callback) : QueueStartChunk(o)
    \/ QueueAfterChunk
    \/ \E o \in CallbackOutcomes(call.callback) : QueueChunkNotify(o)
    \/ QueueDelay
    \/ \E o \in CallbackOutcomes(call.callback) : QueueChunkCatch(o)
    \/ QueueFinish
    \/ \E o \in CallbackOutcomes(call.callback) : QueueFinishNotify(o)
    \/ /\ call.op = "none"
       /\ \E row \in SingleInputs : SingleSubmit(row)
    \/ \E o \in {"ok", "launchFails"} : SingleLaunch(o)
    \/ \E o \in {"ok", "contextFails"} : SingleNewContext(o)
    \/ \E o \in {"ok", "pageFails"} : SingleNewPage(o)
    \/ \E ok \in BOOLEAN : SingleLogin(ok)
    \/ SingleFlow
    \/ SingleFinally
    \/ SingleSettle
    \/ TestDb

Spec == Init /\ [][Next]_vars

\* the steps of one background task: each is the continuation of an await
\* the event loop resumes, or the synchronous code that follows it
TaskStep(t) ==
    \/ \E o \in {"ok", "launchFails"} : Launch(t, o)
    \/ \E o \in {"ok", "contextFails"} : NewContext(t, o)
    \/ \E o \in {"ok", "pageFails"} : NewPage(t, o)
    \/ \E ok \in BOOLEAN : Login(t, ok)
    \/ RowStart(t) \/ RowWait(t) \/ Flow(t) \/ Persist(t) \/ RowCatch(t) \/ Bump(t)
    \/ Complete(t) \/ Fatal(t) \/ Finally(t)
    \/ \E o \in CallbackOutcomes(call.callback) :
          Notify(t, o) \/ RowCatchNotify(t, o) \/ CompleteNotify(t, o) \/ FatalNotify(t, o)

\* the steps of the caller of runQueueBatchLookup
QueueStep ==
    \/ QueueAfterChunk \/ QueueDelay \/ QueueFinish
    \/ \E o \in CallbackOutcomes(call.callback) :
          QueueStartChunk(o) \/ QueueChunkNotify(o) \/ QueueChunkCatch(o) \/ QueueFinishNotify(o)

\* the steps of a runSingleLookup call
SingleStep ==
    \/ \E o \in {"ok", "launchFails"} : SingleLaunch(o)
    \/ \E o \in {"ok", "contextFails"} : SingleNewContext(o)
    \/ \E o \in {"ok", "pageFails"} : SingleNewPage(o)
    \/ \E ok \in BOOLEAN : SingleLogin(ok)
    \/ SingleFlow \/ SingleFinally \/ SingleSettle

\* the event loop runs every continuation that is ready: every portal
\* interaction has a timeout, so an await always settles.  After the
\* process has ended (MayRun) no step of a task or of the queue is
\* enabled, so fairness asks for none.
FairSpec ==
    /\ Spec
    /\ \A t \in TaskIds : WF_vars(TaskStep(t))
    /\ WF_vars(QueueStep)
    /\ WF_vars(SingleStep)

\* ------------------------------------------- helper functions on their own
\* The multi-strategy lookups of the cold flow.  A page is what each
\* strategy meets, in the order the code tries them: "hidden" = isVisible
\* is false or the locator throws, "acts" = the element is visible and the
\* click goes through, "clickFails" = visible, but the click throws into
\* the strategy's own catch.
Resolvers == {"BusinessRadio", "Confirm", "AdditionalService"}

NumStrategies(resolver) ==
    CASE resolver = "BusinessRadio" -> 5
      [] resolver = "Confirm" -> 3
      [] resolver = "AdditionalService" -> 7

StrategyOutcomes == {"hidden", "acts", "clickFails"}

Pages(resolver) == [1..NumStrategies(resolver) -> StrategyOutcomes]

\* strategies k..n in order, each skipped once an earlier one has acted
\* (if (!businessSelected) / if (!confirmClicked) / return): the index of
\* the strategy that acted, 0 when none did
RECURSIVE TryStrategies(_, _, _)
TryStrategies(page, k, n) ==
    IF k > n THEN 0
    ELSE IF page[k] = "acts" THEN k
    ELSE TryStrategies(page, k + 1, n)

\* After the last strategy: the Business and Confirm blocks log and go on
\* with the flag still false; clickAdditionalServiceSafe throws
\* Error('Could not find "Additional Service" link/button ...').
ThrowsOnExhaustion(resolver) == resolver = "AdditionalService"

\* One resolution.  clickAdditionalServiceSafe first awaits
\* page.waitForLoadState("networkidle") and page.waitForTimeout(3000)
\* outside any try: when one of them rejects (ready = FALSE) the function
\* throws with no strategy attempted.  The Business and Confirm blocks
\* start with their first strategy.
Resolve(resolver, page, ready) ==
    LET n == NumStrategies(resolver)
        acted == TryStrategies(page, 1, n)
    IN IF resolver = "AdditionalService" /\ ~ready
       THEN [acted |-> 0, attempted |-> 0, threw |-> TRUE]
       ELSE [acted |-> acted,
             attempted |-> IF acted = 0 THEN n ELSE acted,
             threw |-> acted = 0 /\ ThrowsOnExhaustion(resolver)]

ProbeResolve(resolver, page, ready) ==
    /\ probe = NoProbe
    /\ probe' = [op |-> "resolve", writes |-> 0, resolver |-> resolver, page |-> page,
                 ready |-> ready, out |-> Resolve(resolver, page, ready)]
    /\ UNCHANGED <<registry, store, variant, jobs, results, nextResultId, events, call, task, queue, turn>>

\* Step 14 on a page whose reads return a text, return nothing or throw
MeterReads == {"Active", "", ReadThrows}
PropReads == {"Occupied", "", ReadThrows}
ReadoutRows == {Row(TRUE, TRUE, NoFail, m, p) : m \in MeterReads, p \in PropReads}

ProbeReadout(row) ==
    /\ probe = NoProbe
    /\ probe' = [op |-> "readout", writes |-> 0, row |-> row,
                 cold |-> performPostLoginFlow(row).result,
                 warm |-> processNextAddress(row).result]
    /\ UNCHANGED <<registry, store, variant, jobs, results, nextResultId, events, call, task, queue, turn>>

\* buildAddressAndUnitFromRow on the words of ADDRESS_LI.  The value is
\* kept as its sequence of whitespace-separated words; none of the words
\* has a marker as a proper prefix, so the two regular expressions match
\* at word boundaries only.  STATE_ is the column STATE.
Tokens == {"12", "Main", "Apt", "#", "4b"}

\* String.prototype.toUpperCase on a word
Upper(tok) ==
    CASE tok = "Main" -> "MAIN"
      [] tok = "Apt" -> "APT"
      [] tok = "4b" -> "4B"
      [] OTHER -> tok

\* (APT|UNIT|#)
UnitMarkers == {"APT", "UNIT", "#"}

\* [\w-]+ matches the whole word
WordToken(tok) == tok # "#"

RawRows ==
    [ADDRESS_LI : SeqsUpTo(Tokens, MaxTokens), CITY : {"", "Miami"}, STATE_ : {"", "FL"},
     ZIP : {"", "33101"}, ZP : {"", "33102"}]

Least(S) == CHOOSE p \in S : \A q \in S : p <= q

\* Lines 70-80: the const bindings read off the row and the unit match.
\* The environment of the call holds the caller's row object next to the
\* locals, so that a statement assigning to row[...] would show in it;
\* these statements read the row and bind locals.  The two regular
\* expressions are literals without the g or y flag, created anew by each
\* evaluation: no lastIndex is carried from one call to the next.
BindLocals(row) ==
    LET addressLine == row.ADDRESS_LI
        n == Len(addressLine)
        upper == [k \in 1..n |-> Upper(addressLine[k])]
        \* upper.match(/(?:^|\s)(APT|UNIT|#)\s*([\w-]+)/)
        unitAt == {k \in 1..(n - 1) : upper[k] \in UnitMarkers /\ WordToken(upper[k + 1])}
    IN [row |-> row, addressLine |-> addressLine, upper |-> upper,
        city |-> row.CITY, state |-> row.STATE_,
        zip |-> IF row.ZIP # "" THEN row.ZIP ELSE row.ZP,
        unit |-> IF unitAt = {} THEN "" ELSE upper[Least(unitAt) + 1],
        address |-> Undefined]

\* an address statement that also stores the street part back into the
\* caller's row
BuildAddressInPlace(env) ==
    LET n == Len(env.addressLine)
        splitAt == {k \in 2..(n - 1) :
                       env.upper[k] \in UnitMarkers /\ WordToken(env.addressLine[k + 1])}
        head == IF splitAt = {} THEN env.addressLine
                ELSE SubSeq(env.addressLine, 1, Least(splitAt) - 1)
        \* a part of the address as the list of its words; filter(Boolean)
        \* drops the empty ones
        wordsOf(text) == IF text = "" THEN <<>> ELSE <<text>>
        nonEmpty(words) == words # <<>>
    IN [env EXCEPT
          !.address = [parts |-> SelectSeq(<<head, wordsOf(env.city), wordsOf(env.state)>>, nonEmpty),
                       zip |-> env.zip],
          !.row = [@ EXCEPT !.ADDRESS_LI = head]]

\* Line 82: const address = [addressLine.split(/\s+(?:APT|UNIT|#)\s*
\* [\w-]+/i)[0].trim(), city, state].filter(Boolean).join(", ") + zip.
\* split returns a new array and the statement binds a local: the row in
\* the environment stays as it is.
BuildAddress(env) ==
    LET n == Len(env.addressLine)
        splitAt == {k \in 2..(n - 1) :
                       env.upper[k] \in UnitMarkers /\ WordToken(env.addressLine[k + 1])}
        head == IF splitAt = {} THEN env.addressLine
                ELSE SubSeq(env.addressLine, 1, Least(splitAt) - 1)
        \* a part of the address as the list of its words; filter(Boolean)
        \* drops the empty ones
        wordsOf(text) == IF text = "" THEN <<>> ELSE <<text>>
        nonEmpty(words) == words # <<>>
    IN [env EXCEPT
          !.address = [parts |-> SelectSeq(<<head, wordsOf(env.city), wordsOf(env.state)>>, nonEmpty),
                       zip |-> env.zip]]

\* return { address, unit: unit || undefined }
buildAddressAndUnitFromRow(row) ==
    LET env == BuildAddress(BindLocals(row))
    IN [address |-> env.address, unit |-> IF env.unit = "" THEN Undefined ELSE env.unit]

\* the caller's row object when the call has returned
RowAfterNormalize(row) == BuildAddress(BindLocals(row)).row

\* Two calls one after the other on the same row object: the second call
\* is made on the row as the first call left it.
ProbeNormalize(raw) ==
    LET afterFirst == RowAfterNormalize(raw)
    IN /\ probe = NoProbe
       /\ probe' = [op |-> "normalize", writes |-> 0, input |-> raw,
                    first |-> buildAddressAndUnitFromRow(raw),
                    second |-> buildAddressAndUnitFromRow(afterFirst),
                    rowAfter |-> RowAfterNormalize(afterFirst)]
       /\ UNCHANGED <<registry, store, variant, jobs, results, nextResultId, events, call, task, queue, turn>>

\* The cold flow state by state.  soft = the states whose own try block
\* catches a failure; hard = the number of states entered when an await
\* outside the try blocks rejects, Never when none does.
HardFailures == {Never} \cup ColdThrowPoints
SoftFailures == SUBSET (1..Len(ColdStates))

\* the state whose unguarded Continue click can time out
ContinueState == 5

\* the states entered from state k on: a caught failure goes on to the
\* next step, an await that rejects outside the try blocks leaves the
\* function
RECURSIVE ColdVisit(_, _, _)
ColdVisit(k, soft, hard) ==
    IF k > Len(ColdStates) THEN <<>>
    ELSE IF hard # Never /\ k > hard THEN <<>>
    ELSE <<ColdStates[k]>> \o ColdVisit(k + 1, soft, hard)

\* a flow that leaves at the first state whose try block caught a failure
ColdFlowStopsOnSoft(soft, hard, row) ==
    LET trace == IF soft # {} /\ (hard = Never \/ Least(soft) <= hard)
                 THEN SubSeq(ColdStates, 1, Least(soft))
                 ELSE ColdVisit(1, soft, hard)
    IN [threw |-> hard # Never \/ soft # {}, trace |-> trace,
        result |-> IF hard # Never \/ soft # {} THEN NotFoundPair ELSE StatusReadout(row)]

ColdFlow(soft, hard, row) ==
    [threw |-> hard # Never, trace |-> ColdVisit(1, soft, hard),
     result |-> IF hard # Never THEN NotFoundPair ELSE StatusReadout(row)]

ProbeColdFlow(soft, hard, row) ==
    /\ probe = NoProbe
    /\ probe' = [op |-> "coldFlow", writes |-> 0, soft |-> soft, hard |-> hard, row |-> row,
                 out |-> ColdFlow(soft, hard, row),
                 flow |-> performPostLoginFlow([row EXCEPT !.fail.cold = hard])]
    /\ UNCHANGED <<registry, store, variant, jobs, results, nextResultId, events, call, task, queue, turn>>

\* the three flows called on their own on a page where an unguarded
\* action rejects at any of its points, with and without the link
FlowRows ==
    {Row(TRUE, link, Fail(cold, warm, full, FALSE), "Active", "Occupied") :
        link \in BOOLEAN,
        cold \in {Never} \cup ColdThrowPoints,
        warm \in {Never} \cup WarmFailPoints,
        full \in {Never} \cup FullThrowPoints}

ProbeFlows(row) ==
    /\ probe = NoProbe
    /\ probe' = [op |-> "flows", writes |-> 0, row |-> row,
                 cold |-> performPostLoginFlow(row),
                 warm |-> processNextAddress(row),
                 serverCold |-> performPostLoginFlowServer(row),
                 serverWarm |-> processNextAddressServer(row),
                 full |-> performFlow(row)]
    /\ UNCHANGED <<registry, store, variant, jobs, results, nextResultId, events, call, task, queue, turn>>

\* result writes for several jobs, then GET /api/jobs/:jobId/results
ProbeJobIds == {"j1", "j2"}
ProbeRowIndexes == 0..2

ProbeInsert(jobId, rowIndex) ==
    /\ probe.op \in {"none", "insert", "list"}
    /\ probe.writes < MaxWrites
    /\ results' = InsertResult(store, results, nextResultId, jobId, rowIndex,
                               "Active", "Occupied", Null, TRUE)
    /\ nextResultId' = NextResultId(store, nextResultId)
    /\ probe' = [op |-> "insert", writes |-> probe.writes + 1]
    /\ UNCHANGED <<registry, store, variant, jobs, events, call, task, queue, turn>>

ProbeList(jobId) ==
    /\ probe.op \in {"none", "insert", "list"}
    /\ probe' = [op |-> "list", writes |-> probe.writes, jobId |-> jobId,
                 listed |-> ListResults(results, jobId)]
    /\ UNCHANGED <<registry, store, variant, jobs, results, nextResultId, events, call, task, queue, turn>>

ProbeNext ==
    \/ /\ probe = NoProbe
       /\ \E resolver \in Resolvers : \E page \in Pages(resolver) :
             \E ready \in IF resolver = "AdditionalService" THEN BOOLEAN ELSE {TRUE} :
                ProbeResolve(resolver, page, ready)
    \/ /\ probe = NoProbe
       /\ \E row \in ReadoutRows : ProbeReadout(row)
    \/ /\ probe = NoProbe
       /\ \E raw \in RawRows : ProbeNormalize(raw)
    \/ /\ probe = NoProbe
       /\ \E soft \in SoftFailures, hard \in HardFailures, row \in {RowBoth, RowNone} :
             ProbeColdFlow(soft, hard, row)
    \/ /\ probe = NoProbe
       /\ \E row \in FlowRows : ProbeFlows(row)
    \/ \E jobId \in ProbeJobIds, rowIndex \in ProbeRowIndexes : ProbeInsert(jobId, rowIndex)
    \/ \E jobId \in ProbeJobIds : ProbeList(jobId)

ProbeSpec == Init /\ [][ProbeNext]_vars

\* ------------------------------------------- the progress registry (SSE)
\* POST /api/batch hands runBatchLookup a callback that calls
\* sendProgressUpdate; GET /api/jobs/:jobId/progress registers the
\* response object of a client under the jobId.  Requests carry all the
\* fields and at most MAX_BATCH_SIZE rows.

\* a connect that replays what was pushed before it
ReceivedAtConnectReplayed(pushed) == [k \in 1..Len(pushed) |-> k]

\* what a client has on its stream right after connecting: the
\* {type: 'connected'} message, none of the job's events
ReceivedAtConnect(pushed) == <<>>

\* sendProgressUpdate(jobId, data) for the event at position n: write to
\* the registered connection if there is one; a write that throws drops
\* the entry.  writeThrows tells what a write to a broken socket does.
sendProgressUpdate(reg, jobId, n, writeThrows) ==
    LET c == reg.active[jobId]
    IN IF c = 0 THEN reg
       ELSE IF reg.conn[c] = "open" THEN [reg EXCEPT !.received[c] = Append(@, n)]
       ELSE IF writeThrows THEN [reg EXCEPT !.active[jobId] = 0]
       ELSE reg

\* POST /api/batch up to the first await inside the background task:
\* INSERT INTO jobs and the job_started push of runBatchLookup, then the
\* background function is started and suspends in chromium.launch.  The
\* route's continuation after await runBatchLookup(...) is a microtask:
\* it holds the event loop (turn = QueueProc, the caller) until it has
\* answered, so the launch resolves after the answer.  When the INSERT
\* throws, runBatchLookup rejects before anything is pushed and the
\* route's catch answers 500: no job, no event, no task.
PostBatch(rows, jobId) ==
    /\ call.op = "none"
    /\ variant = "railway"
    /\ IF InsertJobThrows(store, jobs, jobId)
       THEN /\ call' = [op |-> "postBatch", rows |-> rows, callback |-> "reliable",
                        outcome |-> "threw", jobId |-> Null]
            /\ UNCHANGED <<jobs, events, registry, task, turn>>
       ELSE /\ jobs' = InsertJob(store, jobs, jobId, "running", Len(rows), 0)
            /\ events' = Append(events, Event(jobId, "job_started", 0, Len(rows)))
            /\ registry' = sendProgressUpdate(registry, jobId, Len(events) + 1, FALSE)
            /\ call' = [op |-> "postBatch", rows |-> rows, callback |-> "reliable",
                        outcome |-> "pending", jobId |-> jobId]
            /\ task' = [task EXCEPT ![1] = [IdleTask EXCEPT
                            !.pc = "launch", !.jobId = jobId, !.rows = rows,
                            !.hasCallback = TRUE]]
            /\ turn' = QueueProc
    /\ UNCHANGED <<probe, store, variant, results, nextResultId, queue>>

\* res.json({ jobId, message: "Batch processing started" })
PostBatchRespond ==
    /\ call.op = "postBatch"
    /\ call.outcome = "pending"
    /\ call' = [call EXCEPT !.outcome = "returned"]
    /\ turn' = 0
    /\ UNCHANGED <<registry, probe, store, variant, jobs, results, nextResultId, events, task,
                   queue>>

\* The background task from the moment the flow of row i has returned
\* to the end of the row (lines 296-394), on rows whose flows return:
\* the row's INSERT, the push of address_completed or address_failed
\* with processed: i + 1, processed += 1 and UPDATE jobs SET processed.
\* After the last row the loop ends with no await in between: UPDATE
\* jobs SET status = 'completed', the push of job_completed with the
\* counter (396-407), and the task suspends in browser.close().  After
\* any other row the task goes on with the next row (RowStart).  The
\* steps before and between the rows (Launch, NewContext, NewPage, Login,
\* RowStart, RowWait) and Finally are those of the scheduler.
PushProgress(writeThrows) ==
    LET T == task[1]
        i == T.i
        mode == EntryMode(T.needsFullFlow)
        f == RunFlow(mode, T.rows[i + 1])
        branch == BranchOf(variant, f.result)
        entry == [rowIndex |-> i, entry |-> mode, trace |-> f.trace,
                  out |-> FlowOutcome(f), recorded |-> "pending", writes |-> 0]
        p == NextProcessed(T.processed)
        last == ~(i + 1 < Len(T.rows))
        counted == UpdateProcessed(store, jobs, <<p, T.jobId>>)
        rowPushed == Append(events, Event(T.jobId, branch, RowEventProcessed(i), Len(T.rows)))
        rowSent == sendProgressUpdate(registry, T.jobId, Len(events) + 1, writeThrows)
    IN /\ call.op = "postBatch"
       /\ T.pc = "flow"
       /\ MayRun(1)
       /\ results' = IF branch # "address_failed"
             THEN InsertResult(store, results, nextResultId, T.jobId, i,
                               OrNull(f.result.meterStatus), OrNull(f.result.propertyStatus),
                               Null, StatusCapturedAt(branch))
             ELSE InsertResult(store, results, nextResultId, T.jobId, i,
                               Null, Null, "No status found", StatusCapturedAt(branch))
       /\ nextResultId' = NextResultId(store, nextResultId)
       /\ jobs' = IF last THEN UpdateStatus(store, counted, "completed", <<T.jobId>>)
                  ELSE counted
       /\ events' = IF last
                    THEN Append(rowPushed, Event(T.jobId, "job_completed", p, Len(T.rows)))
                    ELSE rowPushed
       /\ registry' = IF last
                      THEN sendProgressUpdate(rowSent, T.jobId, Len(events) + 2, writeThrows)
                      ELSE rowSent
       /\ task' = [task EXCEPT
               ![1].pc = IF last THEN "finally" ELSE "rowStart",
               ![1].i = i + 1,
               ![1].processed = p,
               ![1].result = f.result,
               ![1].needsFullFlow = NeedsFullFlowAfterNotify(NeedsFullFlowAfterFlow(@, f.threw), branch),
               ![1].logins = LoginsAfterFlow(@, mode),
               ![1].log = Recorded(Written(Append(@, entry)), branch)]
       /\ turn' = IF last THEN 0 ELSE 1
       /\ UNCHANGED <<probe, store, variant, call, queue>>

\* GET /api/jobs/:jobId/progress by a client that was given the jobId:
\* activeConnections.set(jobId, res).  A request handler runs when no
\* continuation of the task is running.
Connect(c, jobId) ==
    /\ call.op = "postBatch"
    /\ call.outcome = "returned"
    /\ turn = 0
    /\ jobId = call.jobId
    /\ registry.conn[c] = "none"
    /\ registry' = [registry EXCEPT !.active[jobId] = c,
                                    !.conn[c] = "open",
                                    !.since[c] = Len(events),
                                    !.received[c] = ReceivedAtConnect(events)]
    /\ UNCHANGED <<probe, store, variant, jobs, results, nextResultId, events, call, task,
                   queue, turn>>

\* the socket of a client goes away; its 'close' handler has not run yet
Break(c) ==
    /\ registry.conn[c] = "open"
    /\ registry' = [registry EXCEPT !.conn[c] = "broken"]
    /\ UNCHANGED <<probe, store, variant, jobs, results, nextResultId, events, call, task,
                   queue, turn>>

\* req.on('close', () => activeConnections.delete(jobId))
Disconnect(c) ==
    /\ registry.conn[c] \in {"open", "broken"}
    /\ turn = 0
    /\ registry' = [registry EXCEPT !.active[call.jobId] = 0, !.conn[c] = "closed"]
    /\ UNCHANGED <<probe, store, variant, jobs, results, nextResultId, events, call, task,
                   queue, turn>>

RegistryNext ==
    \/ \E rows \in SeqsUpTo({RowBoth, RowNone}, MaxPushes) \ {<<>>}, jobId \in JobIds :
          PostBatch(rows, jobId)
    \/ PostBatchRespond
    \/ /\ call.op = "postBatch"
       /\ \/ Launch(1, "ok") \/ NewContext(1, "ok") \/ NewPage(1, "ok") \/ Login(1, TRUE)
          \/ RowStart(1) \/ RowWait(1) \/ Finally(1)
    \/ \E writeThrows \in BOOLEAN : PushProgress(writeThrows)
    \/ \E c \in Clients, jobId \in JobIds : Connect(c, jobId)
    \/ \E c \in Clients : Break(c)
    \/ \E c \in Clients : Disconnect(c)

RegistrySpec == Init /\ [][RegistryNext]_vars

\* ------------------------------------------------------------ properties
\* getJob(jobId): SELECT ... FROM jobs
JobsOf(jobId) == {j \in jobs : j.jobId = jobId}

ResultsAt(jobId, rowIndex) == {r \in results : r.jobId = jobId /\ r.rowIndex = rowIndex}

\* C1: for every job of runBatchLookup or runQueueBatchLookup, in every
\* state 0 <= processed <= total, and the stored processed never decreases
\* from one state to the next.
C1_ProcessedBoundedMonotonic ==
    /\ [](\A j \in jobs : 0 <= j.processed /\ j.processed <= j.total)
    /\ [][\A j \in jobs : \A k \in jobs' :
            k.jobId = j.jobId => k.processed >= j.processed]_vars

\* a job part of the way through its rows
C1_Witness ==
    \E j \in jobs : 0 < j.processed /\ j.processed < j.total

\* the background loop has run past its last row and past line 396
LoopFinished(t) ==
    /\ task[t].pc \in {"completeNotify", "fatal", "fatalNotify", "finally", "done"}
    /\ Len(task[t].rows) > 0
    /\ task[t].i = Len(task[t].rows)

\* C2: once the loop of runBatchLookup has processed every row of a
\* non-empty batch, the Job read back from the store has status
\* 'completed', whichever store the scheduler is wired to.
C2_CompletedAfterLoop ==
    \A t \in TaskIds : LoopFinished(t) =>
        \A j \in JobsOf(task[t].jobId) : j.status = "completed"

\* C3: status transitions are one-way: once a job's stored status is
\* 'completed' or 'failed', no later step changes it.
C3_StatusOneWay ==
    [][\A j \in jobs : j.status \in {"completed", "failed"} =>
          \A k \in jobs' : k.jobId = j.jobId => k.status = j.status]_vars

\* C4: when an exception escapes the per-row handling, the job ends
\* 'completed' if processed > 0 and 'failed' only if processed = 0; no job
\* is ever 'failed' with processed > 0.
C4_FailedOnlyWithoutProgress ==
    \A j \in jobs : j.status = "failed" => j.processed = 0

\* C5: a completed job holds exactly one Result per row index; a second
\* write for an index replaces the first, and listing a job's results
\* never returns two entries with the same rowIndex.
C5_ExactlyOneResultPerRow ==
    /\ \A j \in jobs : j.status = "completed" =>
          \A i \in 0..(j.total - 1) : Cardinality(ResultsAt(j.jobId, i)) = 1
    /\ \A r \in results : Cardinality(ResultsAt(r.jobId, r.rowIndex)) = 1
    /\ \A id \in JobIds :
          LET listed == ListResults(results, id)
          IN \A a, b \in 1..Len(listed) : a # b => listed[a].rowIndex # listed[b].rowIndex

\* C6: every Result has error set XOR both statuses set; never an error
\* together with a status, never neither.
C6_ErrorXorStatuses ==
    \A r \in results :
        /\ (r.error # Null) # (r.meterStatus # Null /\ r.propertyStatus # Null)
        /\ ~(r.error # Null /\ (r.meterStatus # Null \/ r.propertyStatus # Null))

\* rows with a captured status of which one field is the sentinel, next to
\* a row recorded with "No status found" and a row recorded with a thrown error
C6_Witness ==
    /\ \E r \in results : r.error = Null /\ r.meterStatus = NotFound /\ r.propertyStatus # NotFound
    /\ \E r \in results : r.error = "No status found"
    /\ \E r \in results : r.error = OrUnknown(ErrorMessage)

\* C7: after a row whose flow returned the sentinel in both fields or
\* raised an exception, the next row, when a flow is run for it, is run
\* with cold entry and not with warm entry.
C7_ColdAfterFailure ==
    \A t \in TaskIds : \A k \in 1..(Len(task[t].log) - 1) :
        (task[t].log[k].out \in {"sentinel", "exception"} /\ task[t].log[k + 1].entry # "none")
            => task[t].log[k + 1].entry = "cold"

\* a warm row that came back with the sentinel, and the row after it run cold
C7_Witness ==
    \E t \in TaskIds :
        /\ Len(task[t].log) >= 3
        /\ task[t].log[2].entry = "warm" /\ task[t].log[2].out = "sentinel"
        /\ task[t].log[3].entry = "cold"

\* C8 as stated: when two consecutive rows both yield a non-sentinel
\* status, the second uses warm entry and its flow starts at
\* AddressAndUnitEntry, passing through no earlier state.
C8_WarmSkipsEarlierStates ==
    \A t \in TaskIds : \A k \in 1..(Len(task[t].log) - 1) :
        (task[t].log[k].out = "status" /\ task[t].log[k + 1].out = "status") =>
            /\ task[t].log[k + 1].entry = "warm"
            /\ task[t].log[k + 1].trace[1] = "AddressAndUnitEntry"

\* nothing but required-step failures of rows went wrong in the batch
OnlyRowFailures(t) ==
    /\ \A k \in 1..Len(task[t].rows) : task[t].rows[k].wellFormed
    /\ ~task[t].callbackThrew
    /\ \E k \in 1..Len(task[t].log) : task[t].log[k].out = "exception"

\* C9: a required-step failure aborts its row only: the row's Result has
\* error set and null statuses, every later row is still attempted, and
\* the job ends with processed = total and status 'completed'.
C9_RowFailureAbortsRowOnly ==
    \A t \in TaskIds : (task[t].pc = "done" /\ OnlyRowFailures(t)) =>
        /\ Len(task[t].log) = Len(task[t].rows)
        /\ \A j \in JobsOf(task[t].jobId) :
              j.processed = j.total /\ j.status = "completed"
        /\ \A k \in 1..Len(task[t].log) : task[t].log[k].out = "exception" =>
              /\ ResultsAt(task[t].jobId, k - 1) # {}
              /\ \A r \in ResultsAt(task[t].jobId, k - 1) :
                    r.error # Null /\ r.meterStatus = Null /\ r.propertyStatus = Null

\* C10: a batch with more rows than the cap is rejected synchronously: the
\* call throws, no Job is created, no event is pushed, no browser opened.
C10_OversizeRejected ==
    (call.op = "runBatchLookup" /\ Len(call.rows) > MAX_BATCH_SIZE) =>
        /\ call.outcome = "threw"
        /\ jobs \subseteq {OldJob(store)}
        /\ events = <<>>
        /\ \A t \in TaskIds : task[t].browser = "none"

\* C11: runBatchLookup returns {jobId, total} once the Job exists with
\* status 'running', processed 0 and total = rows.length, and without
\* waiting for a row: in the state in which the call has returned the
\* background task is still waiting for the browser, no Result of the job
\* exists and the stored processed is 0.
C11_ReturnsBeforeAnyRow ==
    [][(call.op = "none" /\ call'.op = "runBatchLookup" /\ call'.outcome = "returned") =>
          /\ call'.jobId \in JobIds
          /\ {j \in jobs' : j.jobId = call'.jobId} =
                {JobRec(call'.jobId, "running", Len(call'.rows), 0)}
          /\ {r \in results' : r.jobId = call'.jobId} = {}
          /\ task'[1].pc = "launch" /\ task'[1].i = 0 /\ task'[1].processed = 0]_vars

\* the call has just returned for a batch with rows and nothing has run yet
C11_Witness ==
    /\ call.op = "runBatchLookup" /\ call.outcome = "returned"
    /\ Len(call.rows) = MaxRows
    /\ task[1].pc = "launch"
    /\ \E j \in JobsOf(call.jobId) : j.status = "running" /\ j.processed = 0

\* C12: under fair scheduling of the background task every job eventually
\* leaves 'running' for 'completed' or 'failed', also when launching the
\* browser or creating the context or page fails.
C12_EventuallyTerminal ==
    \A id \in JobIds :
        (JobsOf(id) # {}) ~> (\A j \in JobsOf(id) : j.status \in {"completed", "failed"})

\* C13: a browser opened by a batch is eventually closed, on every exit
\* path of the background task, the failure of newContext or newPage
\* included.
C13_BrowserEventuallyClosed ==
    \A t \in TaskIds : (task[t].browser = "open") ~> (task[t].browser = "closed")

\* pc values of the row loop
RowStages == {"rowStart", "wait", "flow", "persist", "notify", "rowCatch", "rowCatchNotify",
              "bump"}

\* C14: one browser session serves all rows of a batch: while the row loop
\* runs the browser opened before the first row is open, and the only
\* changes of a task's browser are the opening at launch and the closing
\* in the finally block, whatever the rows' outcomes.
C14_OneSessionPerBatch ==
    /\ [](\A t \in TaskIds : task[t].pc \in RowStages => task[t].browser = "open")
    /\ [][\A t \in TaskIds : (task'[t].kind # "single" /\ task'[t].browser # task[t].browser) =>
            \/ task[t].pc = "launch" /\ task[t].browser = "none" /\ task'[t].browser = "open"
            \/ task[t].pc = "finally" /\ task[t].browser = "open" /\ task'[t].browser = "closed"]_vars

\* a batch whose three rows ended with a status, the sentinel and an
\* exception, its browser still open after the last row
C14_Witness ==
    \E t \in TaskIds :
        /\ task[t].pc = "complete" /\ Len(task[t].log) = 3
        /\ {task[t].log[k].out : k \in 1..3} = {"status", "sentinel", "exception"}
        /\ task[t].browser = "open"

\* C15: safeLoginFlow runs exactly once per batch, before the first row:
\* no task logs in twice, from the first row on the count is one, after
\* cold rows, warm rows and rows that failed, and no row's flow goes
\* through a sign-in of its own.
C15_LoginOnce ==
    \A t \in TaskIds :
        /\ task[t].logins <= 1
        /\ (task[t].pc \in RowStages \/ Len(task[t].log) > 0) => task[t].logins = 1
        /\ \A k \in 1..Len(task[t].log) : \A n \in 1..Len(task[t].log[k].trace) :
               task[t].log[k].trace[n] # "Login"

\* C16: runSingleLookup releases its browser session on every exit path:
\* when the promise of the call settles, by a result or by an exception,
\* no browser of the call is left open.
C16_SingleClosesBrowser ==
    (call.op = "runSingleLookup" /\ call.outcome \in {"returned", "threw"}) =>
        task[1].browser # "open"

\* C17: runSingleLookup leaves the Job/Result store as it was: no step of
\* a single lookup changes the jobs or the results, on success and on
\* failure, and after it the store holds what it held when the service
\* started and nothing else.
C17_SingleLeavesStore ==
    /\ [](call.op = "runSingleLookup" =>
            /\ jobs \subseteq {OldJob(store)}
            /\ results \subseteq {OldResult(store, variant)}
            /\ \A r \in results : nextResultId > r.id)
    /\ [][call'.op = "runSingleLookup" =>
            jobs' = jobs /\ results' = results /\ nextResultId' = nextResultId]_vars

\* a single lookup that returned a status, the store still holding the
\* job and the result of the earlier run
C17_Witness ==
    /\ call.op = "runSingleLookup" /\ call.outcome = "returned"
    /\ HasStatus(task[1].result)
    /\ jobs = {OldJob(store)} /\ results = {OldResult(store, variant)}

\* C18: a single lookup whose login and navigation succeed on a page
\* that shows neither status returns the "Not found" pair and does not
\* throw.
C18_SingleNotFound ==
    (/\ call.op = "runSingleLookup" /\ call.outcome \in {"returned", "threw"}
     /\ Len(task[1].log) = 1
     /\ task[1].rows[1].fail = NoFail
     /\ task[1].rows[1].meter = "" /\ task[1].rows[1].prop = "") =>
        /\ call.outcome = "returned"
        /\ task[1].result = [meterStatus |-> "Not found", propertyStatus |-> "Not found"]

\* the lookup of an address without status fields has returned
C18_Witness ==
    /\ call.op = "runSingleLookup" /\ call.outcome = "returned"
    /\ task[1].rows = <<RowNone>>
    /\ task[1].log[1].trace = ColdStates

RowEventTypes == {"address_completed", "address_failed", "address_error"}

\* the positions of the row-level events in the progress channel
RowEvents == {n \in 1..Len(events) : events[n].type \in RowEventTypes}

\* C19: for each row runBatchLookup first persists the Result, then pushes
\* the row's event, then increments the stored processed: the event of
\* row i is pushed when a Result for row i exists and carries processed =
\* i + 1 while the store reads i, and the stored processed goes from i to
\* i + 1 only after the Result of row i was written and, with a callback,
\* its event pushed.
C19_PersistPushIncrement ==
    [][call.op = "runBatchLookup" =>
        /\ (Len(events') > Len(events) /\ events'[Len(events')].type \in RowEventTypes) =>
              LET e == events'[Len(events')]
              IN /\ ResultsAt(e.jobId, e.processed - 1) # {}
                 /\ \A j \in JobsOf(e.jobId) : j.processed = e.processed - 1
                 /\ jobs' = jobs
        /\ \A j \in jobs : \A k \in jobs' :
              (k.jobId = j.jobId /\ k.processed # j.processed) =>
                 /\ k.processed = j.processed + 1
                 /\ ResultsAt(j.jobId, j.processed) # {}
                 /\ call.callback # "absent" =>
                       \E n \in RowEvents : events[n].processed = k.processed]_vars

\* the second row's error event is out and the store still reads 1
C19_Witness ==
    /\ call.op = "runBatchLookup"
    /\ Len(events) > 0
    /\ events[Len(events)].type = "address_error" /\ events[Len(events)].processed = 2
    /\ \E j \in JobsOf(call.jobId) : j.processed = 1
    /\ ResultsAt(call.jobId, 1) # {}

\* a row of a runBatchLookup job is not started before the row before it
\* has its Result and, with a callback, its event
RowsOneAtATime ==
    \A t \in TaskIds :
        (task[t].kind = "job" /\ task[t].pc = "flow" /\ task[t].i > 0) =>
            /\ ResultsAt(task[t].jobId, task[t].i - 1) # {}
            /\ call.callback # "absent" =>
                  \E n \in RowEvents : events[n].processed = task[t].i

\* C20 as stated: for a job of runBatchLookup the Results are written in
\* strictly increasing rowIndex order, the row-level events are pushed in
\* strictly increasing row order, and row i + 1 is not started before
\* row i has its Result and its event.
C20_StrictRowOrder ==
    /\ [](call.op = "runBatchLookup" =>
            /\ RowsOneAtATime
            /\ \A a, b \in RowEvents : a < b => events[a].processed < events[b].processed)
    /\ [][call.op = "runBatchLookup" =>
            \A r \in results' \ results : \A q \in results :
                q.jobId = r.jobId => q.rowIndex < r.rowIndex]_vars

\* the event types of the progress channel
ChannelTypes ==
    {"job_started", "address_completed", "address_failed", "address_error",
     "job_completed", "job_failed"}

\* C21: every event handed to the progress callback has one of the six
\* types of the channel and carries processed, total and a message.
C21_EventShape ==
    \A n \in 1..Len(events) :
        /\ events[n].type \in ChannelTypes
        /\ {"processed", "total", "message"} \subseteq DOMAIN events[n]

\* the background task has been started and has not yet closed its browser
Alive(t) == task[t].kind # "single" /\ task[t].pc \notin {"idle", "done", "crashed"}

\* the (jobId, rowIndex) identities under which a task has written Results
WrittenBy(t) ==
    {<<task[t].jobId, task[t].log[k].rowIndex>> :
        k \in {n \in 1..Len(task[t].log) : task[t].log[n].recorded # "pending"}}

\* C22: two background tasks that are alive at the same time never write
\* Results under the same (jobId, rowIndex), the tasks runQueueBatchLookup
\* starts for its batches included.
C22_DisjointWrites ==
    \A t1, t2 \in TaskIds :
        (t1 # t2 /\ Alive(t1) /\ Alive(t2)) => WrittenBy(t1) \cap WrittenBy(t2) = {}

\* the session is lost for good at row k: every page interaction of row k
\* and of every later row throws, no earlier one does
SessionDiesAt(t, k) ==
    /\ k \in 1..Len(task[t].rows)
    /\ \A m \in 1..Len(task[t].rows) :
          task[t].rows[m].fail = (IF m >= k THEN PageClosed ELSE NoFail)

\* C23: when the session fails for good in the middle of a batch, the job
\* ends 'completed' if an earlier row succeeded and 'failed' otherwise
\* (read back from a store that applies the status update).
C23_SessionLossIsFatal ==
    \A t \in TaskIds : \A k \in 1..Len(task[t].rows) :
        (/\ task[t].kind = "job" /\ task[t].pc = "done" /\ store = "sqlite"
         /\ (task[t].loggedIn \/ variant = "older") /\ ~task[t].callbackThrew
         /\ \A m \in 1..Len(task[t].rows) : task[t].rows[m].wellFormed
         /\ SessionDiesAt(t, k)) =>
            \A j \in JobsOf(task[t].jobId) :
                j.status = IF \E m \in 1..Len(task[t].log) :
                                   m < k /\ task[t].log[m].out = "status"
                           THEN "completed" ELSE "failed"

\* the row-level events pushed for row index i of a job
RowEventsOf(jobId, i) ==
    {n \in RowEvents : events[n].jobId = jobId /\ events[n].processed = i + 1}

\* the log entries made for row index i
EntriesOf(t, i) == {n \in 1..Len(task[t].log) : task[t].log[n].rowIndex = i}

\* the calls of a flow made for row index i
AttemptsOf(t, i) == {n \in EntriesOf(t, i) : task[t].log[n].entry # "none"}

\* C24 as stated: no row is retried: a row index of a runBatchLookup job
\* is handed to the flow once, and a processed row has one Result write
\* and one row-level event.
C24_OneAttemptOneWrite ==
    \A t \in TaskIds : (task[t].kind = "job" /\ call.op = "runBatchLookup") =>
        /\ \A i \in 0..(Len(task[t].rows) - 1) : Cardinality(AttemptsOf(t, i)) <= 1
        /\ \A i \in 0..(task[t].processed - 1) :
              /\ Cardinality(AttemptsOf(t, i)) = 1
              /\ \A n \in AttemptsOf(t, i) : task[t].log[n].writes = 1
              /\ task[t].hasCallback => Cardinality(RowEventsOf(task[t].jobId, i)) = 1

\* C27: in every Result statusCapturedAt is set exactly when the row's
\* status text was captured, that is when error is null, and is null
\* exactly when the row has an error.
C27_CapturedIffNoError ==
    \A r \in results : r.statusCaptured <=> r.error = Null

\* the values of a Job's status
JobStatuses == {"running", "completed", "failed"}

\* C29: every Job record in the store has a status in {running,
\* completed, failed}, whichever operation inserted or updated it.
C29_StatusEnum ==
    \A j \in jobs : j.status \in JobStatuses

\* C25: a multi-strategy lookup tries its strategies in their order, acts
\* with the first one that finds a visible, interactable element and
\* attempts no later one; when every strategy fails it reports that to its
\* caller as a value and does not throw.
C25_FirstVisibleWins ==
    probe.op = "resolve" =>
        LET hits == {k \in DOMAIN probe.page : probe.page[k] = "acts"}
        IN /\ ~probe.out.threw
           /\ hits # {} => /\ probe.out.acted = Least(hits)
                           /\ probe.out.attempted = Least(hits)
           /\ hits = {} => probe.out.acted = 0

\* what one field of Step 14 is: the extracted text, or "Not found"
FieldOf(read) == IF read \in {"", ReadThrows} THEN NotFound ELSE read

\* C26: Step 14 of the cold and of the warm flow returns a pair in which
\* each field is the text read for it or "Not found", whatever happened
\* to the read of the other field.
C26_FieldsIndependent ==
    probe.op = "readout" =>
        \A out \in {probe.cold, probe.warm} :
            /\ out.meterStatus = FieldOf(probe.row.meter)
            /\ out.propertyStatus = FieldOf(probe.row.prop)

C26_Witness ==
    /\ probe.op = "readout"
    /\ probe.row.meter = ReadThrows
    /\ probe.cold = [meterStatus |-> NotFound, propertyStatus |-> "Occupied"]
    /\ probe.warm = probe.cold

\* C28: two calls of buildAddressAndUnitFromRow one after the other on
\* the same raw row return equal {address, unit} pairs, and after them
\* the row is what it was before the first call.
C28_NormalizeDeterministic ==
    probe.op = "normalize" =>
        /\ probe.first = probe.second
        /\ probe.rowAfter = probe.input

\* a row with a unit after the street, a city and a state and its zip in
\* ZP: the unit is cut out of the address both times and is still in the
\* row
C28_Witness ==
    /\ probe.op = "normalize"
    /\ probe.first.unit = "4B"
    /\ Len(probe.first.address.parts) = 3
    /\ probe.first.address.zip = "33102"
    /\ Len(probe.first.address.parts[1]) < Len(probe.input.ADDRESS_LI)
    /\ probe.second.unit = "4B"
    /\ probe.rowAfter.ADDRESS_LI = probe.input.ADDRESS_LI

\* C30: after any sequence of result writes for any jobs, the listing
\* for a jobId holds the Results of that job and no others, in ascending
\* rowIndex.
C30_ListingFilteredSorted ==
    probe.op = "list" =>
        LET listed == probe.listed
        IN /\ \A n \in 1..Len(listed) : listed[n].jobId = probe.jobId
           /\ \A m, n \in 1..Len(listed) : m < n => listed[m].rowIndex <= listed[n].rowIndex
           /\ {listed[n] : n \in 1..Len(listed)} = {r \in results : r.jobId = probe.jobId}

C30_Witness ==
    /\ probe.op = "list"
    /\ probe.writes = MaxWrites
    /\ Len(probe.listed) = 2
    /\ probe.listed[1].rowIndex < probe.listed[2].rowIndex
    /\ \E r \in results : r.jobId # probe.jobId

\* the step is the per-row UPDATE jobs SET processed of some task
RowUpdateStep == \E t \in TaskIds : task[t].pc = "bump" /\ task'[t].pc = "rowStart"

\* C31: once a job exists its total and createdAt never change, and the
\* per-row update of processed leaves its status as it was.
C31_ProcessedOnly ==
    [][\A j \in jobs : \A k \in jobs' :
          j.jobId = k.jobId =>
              /\ k.total = j.total
              /\ k.createdAt = j.createdAt
              /\ RowUpdateStep => k.status = j.status]_vars

C31_Witness ==
    /\ call.op = "runBatchLookup"
    /\ Len(call.rows) = 3
    /\ \E j \in jobs : j.jobId = call.jobId /\ j.processed = 2 /\ j.total = 3
                        /\ j.status = "running" /\ j.createdAt = Now

\* rows of the queue whose flow has been started by a batch task
RECURSIVE RowsAttempted(_)
RowsAttempted(T) ==
    IF T = {} THEN 0
    ELSE LET t == CHOOSE x \in T : TRUE
         IN (IF task[t].kind = "chunk" THEN Len(task[t].log) ELSE 0) + RowsAttempted(T \ {t})

\* every row of batch b has been recorded by the task of that batch
BatchRecorded(b) ==
    LET T == task[b + 1]
    IN /\ T.kind = "chunk"
       /\ Len(T.log) = Len(Batch(call.rows, b))
       /\ \A k \in 1..Len(T.log) : T.log[k].recorded # "pending"

\* C32: in runQueueBatchLookup the master job's processed never exceeds
\* the number of rows attempted so far, and its status is 'completed'
\* only when every row of every batch has been recorded.
C32_MasterCountsAttempts ==
    call.op = "runQueueBatchLookup" =>
        \A j \in jobs : j.jobId = call.jobId =>
            /\ j.processed <= RowsAttempted(TaskIds)
            /\ j.status = "completed" =>
                   \A b \in 0..(NumBatches(Len(call.rows)) - 1) : BatchRecorded(b)

\* rows that ran with warm entry and came back without a status
WarmFailures(t) ==
    {k \in 1..Len(task[t].log) :
        /\ task[t].log[k].entry = "warm"
        /\ task[t].log[k].out # "status"
        /\ task[t].log[k].recorded # "pending"}

\* C33 as stated: a row run with warm entry never comes back as an
\* exception, and when it fails it is recorded as address_failed with the
\* error "No status found", never as address_error.
C33_WarmNeverAddressError ==
    \A t \in TaskIds : \A k \in 1..Len(task[t].log) :
        /\ task[t].log[k].entry = "warm" => task[t].log[k].out # "exception"
        /\ k \in WarmFailures(t) => task[t].log[k].recorded = "address_failed"

\* C34: a row scheduled for warm entry on a page on which the four
\* selectors were tried and found no visible "Not the right address?"
\* link goes through the cold flow for that same row,
\* from AccountSelect on and through no warm state before it, and what
\* the cold flow read is what is recorded for the row.
C34_NoLinkRunsColdFlow ==
    \A t \in TaskIds : \A k \in 1..Len(task[t].log) :
        LET e == task[t].log[k]
            row == task[t].rows[e.rowIndex + 1]
            cold == FlowOf(variant, "cold", row)
        IN (e.entry = "warm" /\ ~row.link /\ row.fail.warm # 0) =>
              /\ e.trace = cold.trace
              /\ e.trace # <<>> => e.trace[1] = "AccountSelect"
              /\ ~cold.threw => e.out = FlowOutcome(cold)
              /\ (task[t].kind = "job" /\ e.recorded = "address_completed") =>
                     \E r \in ResultsAt(task[t].jobId, e.rowIndex) :
                        /\ r.meterStatus = OrNull(cold.result.meterStatus)
                        /\ r.propertyStatus = OrNull(cold.result.propertyStatus)

C34_Witness ==
    \E t \in TaskIds : \E k \in 1..Len(task[t].log) :
        /\ task[t].kind = "job"
        /\ task[t].log[k].entry = "warm"
        /\ task[t].rows[task[t].log[k].rowIndex + 1] = RowNoLink
        /\ task[t].log[k].trace = ColdStates
        /\ task[t].log[k].recorded = "address_completed"
        /\ \E r \in ResultsAt(task[t].jobId, task[t].log[k].rowIndex) :
               r.meterStatus = "Active" /\ r.propertyStatus = "Occupied"

\* C35 as stated: the cold flow enters its states in the fixed order, a
\* failure caught inside one state skips and reorders none of the later
\* ones, and the flow ends before StatusReadout only when the initial
\* page-load wait or the Continue click after CustomerTypeSelect throws.
C35_ColdOrderFixed ==
    probe.op = "coldFlow" =>
        LET trace == probe.out.trace
        IN /\ trace = SubSeq(ColdStates, 1, Len(trace))
           /\ probe.hard = Never => (trace = ColdStates /\ ~probe.out.threw)
           /\ Len(trace) < Len(ColdStates) =>
                  /\ probe.hard \in {0, ContinueState}
                  /\ probe.out.threw

\* C35 amended: the cold flow enters its states in the fixed order and a
\* failure caught inside one state skips and reorders none of the later
\* ones; the flow ends before StatusReadout only when an await outside
\* the steps' try blocks rejects: the initial page-load wait, the
\* Continue click after CustomerTypeSelect, or one of the fixed waits
\* between the steps (on a page that has been closed); it then throws
\* out of the state it has reached.
C35_ColdOrderUntilThrow ==
    probe.op = "coldFlow" =>
        LET trace == probe.out.trace
        IN /\ trace = SubSeq(ColdStates, 1, Len(trace))
           /\ probe.hard = Never => (trace = ColdStates /\ ~probe.out.threw)
           /\ Len(trace) < Len(ColdStates) =>
                  /\ probe.hard \in ColdThrowPoints
                  /\ probe.out.threw
                  /\ Len(trace) = probe.hard
           /\ probe.flow = probe.out

\* caught failures in three states, then the wait before Step 10 rejects
C35_Witness ==
    /\ probe.op = "coldFlow"
    /\ probe.soft = {1, 4, 6}
    /\ probe.hard = 7
    /\ probe.out.trace = SubSeq(ColdStates, 1, 7)
    /\ probe.out.threw

\* the row indexes of a job that have a Result
RowIndexesWithResult(jobId) == {r.rowIndex : r \in {q \in results : q.jobId = jobId}}

\* C36: for a job of runBatchLookup the number of row indexes with a
\* Result is the stored processed or one more than it, in every state.
C36_ResultsTrackProcessed ==
    call.op = "runBatchLookup" =>
        \A j \in jobs : j.jobId = call.jobId =>
            Cardinality(RowIndexesWithResult(j.jobId)) \in {j.processed, j.processed + 1}

C36_Witness ==
    /\ call.op = "runBatchLookup"
    /\ \E j \in jobs : /\ j.jobId = call.jobId
                        /\ j.processed = 2
                        /\ Cardinality(RowIndexesWithResult(j.jobId)) = 3

TerminalEvents == {n \in 1..Len(events) : events[n].type \in {"job_completed", "job_failed"}}

\* C37: once the background task of a runBatchLookup job with a progress
\* callback has ended, exactly one terminal event has been pushed, it is
\* the last event, and its type agrees with the stored status of the job.
C37_OneTerminalEvent ==
    \A t \in TaskIds :
        (task[t].kind = "job" /\ task[t].pc \in {"done", "crashed"} /\ Pushes(task[t])) =>
            /\ Cardinality(TerminalEvents) = 1
            /\ TerminalEvents = {Len(events)}
            /\ \A j \in JobsOf(task[t].jobId) :
                   j.status = IF events[Len(events)].type = "job_completed"
                              THEN "completed" ELSE "failed"

\* C38: a batch of zero rows has a Job with total = 0 and, when login has
\* succeeded and the background task has ended, status 'completed' and
\* processed = 0, no Result and no row-level event.
C38_EmptyBatchCompletes ==
    \A t \in TaskIds :
        (/\ call.op = "runBatchLookup"
         /\ call.rows = <<>>
         /\ task[t].kind = "job"
         /\ task[t].loggedIn
         /\ task[t].pc = "done") =>
            /\ JobsOf(call.jobId) = {JobRec(call.jobId, "completed", 0, 0)}
            /\ {r \in results : r.jobId = call.jobId} = {}
            /\ \A n \in 1..Len(events) : events[n].type \notin RowEventTypes

\* the events pushed for the job since client c connected
PushedSince(c) == {n \in 1..Len(events) : n > registry.since[c]}

Received(c) == {registry.received[c][k] : k \in 1..Len(registry.received[c])}

\* C39: the registry holds at most one connection per jobId, and a client
\* whose connection is open has received every event pushed for the job
\* since it connected, whatever other clients of the same job did.
C39_ConnectedReceivesAll ==
    /\ \A j \in JobIds : registry.active[j] \in Clients \cup {0}
    /\ \A c \in Clients : registry.conn[c] = "open" => Received(c) = PushedSince(c)

\* C40: job_started is the first event pushed and it is pushed before the
\* submit call has returned the jobId: every subscription is made after
\* it, no client receives it, and a client receives only events pushed
\* after it connected.
C40_EarlyEventsDropped ==
    /\ (call.op = "postBatch" /\ call.outcome = "returned") =>
           (Len(events) >= 1 /\ events[1].type = "job_started")
    /\ \A c \in Clients :
           /\ registry.conn[c] # "none" => registry.since[c] >= 1
           /\ Received(c) \subseteq PushedSince(c)
           /\ \A n \in Received(c) : events[n].type # "job_started"

C40_Witness ==
    /\ call.op = "postBatch"
    /\ Len(events) = 3
    /\ \E c \in Clients : /\ registry.conn[c] = "open"
                           /\ registry.since[c] = 2
                           /\ registry.received[c] = <<3>>

====
